---- MODULE Spec2Model ----
(***************************************************************************)
(* The confirmation gate of the LocalCoinSwap MCP server                   *)
(* (src/src/handlers.ts): the pending-confirmation store, the two          *)
(* sensitive handlers handleCreateSwap / handleStartTrade with their await *)
(* points, the redemption check validateConfirmation and the periodic      *)
(* sweep.                                                                  *)
(*                                                                         *)
(* Strings are sequences of one-character strings, so that toUpperCase,    *)
(* trim and the two regular expressions are computed, not assumed.         *)
(* A confirmation id `confirm_${Date.now()}_${random}` is the triple       *)
(* <<"confirm", t, r>>.                                                    *)
(***************************************************************************)
EXTENDS Integers, Sequences, FiniteSets, Bags, TLC

VARIABLES
  now,                  \* Date.now(), in milliseconds
  config,               \* the ServerConfig handed to the handlers
  pendingConfirmations, \* the module-level Map id -> PendingConfirmation
  cleanupInterval,      \* the module-level timer handle, 0 for null
  timers,               \* the interval timers of the runtime that are active
  inflight,             \* handler invocations suspended at an await
  last,                 \* what the latest step did with the store
  ledger,               \* history: per id, how its records ended
  issued                \* history: how many confirmations were issued

vars == <<now, config, pendingConfirmations, cleanupInterval, timers,
          inflight, last, ledger, issued>>

----------------------------------------------------------------------------
(* Bounds of the model *)

\* confirmations issued in one run
MaxIssued == 2
\* handler invocations suspended at an await at the same time
MaxInflight == 2

\* the values Math.random().toString(36).substring(2, 8) is drawn from,
\* numbered
RandomSuffixes == {1, 2}

----------------------------------------------------------------------------
(* Strings *)

LowerLetters ==
  <<"a", "b", "c", "d", "e", "f", "g", "h", "i", "j", "k", "l", "m", "n",
    "o", "p", "q", "r", "s", "t", "u", "v", "w", "x", "y", "z">>
UpperLetters ==
  <<"A", "B", "C", "D", "E", "F", "G", "H", "I", "J", "K", "L", "M", "N",
    "O", "P", "Q", "R", "S", "T", "U", "V", "W", "X", "Y", "Z">>
Digits == {"0", "1", "2", "3", "4", "5", "6", "7", "8", "9"}
Whitespace == {" "}

Range(s) == {s[i] : i \in DOMAIN s}

\* String.prototype.toUpperCase, one character
UpperChar(c) ==
  IF \E i \in DOMAIN LowerLetters : LowerLetters[i] = c
  THEN UpperLetters[CHOOSE i \in DOMAIN LowerLetters : LowerLetters[i] = c]
  ELSE c

ToUpperCase(s) == [i \in DOMAIN s |-> UpperChar(s[i])]

RECURSIVE TrimStart(_)
TrimStart(s) ==
  IF s # <<>> /\ Head(s) \in Whitespace THEN TrimStart(Tail(s)) ELSE s

RECURSIVE TrimEnd(_)
TrimEnd(s) ==
  IF s # <<>> /\ s[Len(s)] \in Whitespace
  THEN TrimEnd(SubSeq(s, 1, Len(s) - 1))
  ELSE s

\* String.prototype.trim
Trim(s) == TrimEnd(TrimStart(s))

\* the value null
Null == <<"null">>

\* a pattern without the bounds on the length
MatchesAnyLength(s) ==
  \A i \in DOMAIN s : s[i] \in Range(UpperLetters) \cup Digits

\* CURRENCY_SYMBOL_REGEX = /^[A-Z0-9]{2,10}$/
MatchesCurrencySymbolRegex(s) ==
  /\ Len(s) >= 2
  /\ Len(s) <= 10
  /\ \A i \in DOMAIN s : s[i] \in Range(UpperLetters) \cup Digits

\* `Invalid currency symbol: "${symbol}". Must be 2-10 alphanumeric
\* characters.`
InvalidSymbolPrefix ==
  <<"I", "n", "v", "a", "l", "i", "d", " ", "c", "u", "r", "r", "e", "n",
    "c", "y", " ", "s", "y", "m", "b", "o", "l", ":", " ", "\"">>
MustBeAlphanumeric ==
  <<"\"", ".", " ", "M", "u", "s", "t", " ", "b", "e", " ", "2", "-", "1",
    "0", " ", "a", "l", "p", "h", "a", "n", "u", "m", "e", "r", "i", "c",
    " ", "c", "h", "a", "r", "a", "c", "t", "e", "r", "s", ".">>

InvalidCurrencySymbol(symbol) ==
  InvalidSymbolPrefix \o symbol \o MustBeAlphanumeric

\* validateCurrencySymbol(symbol): null, or the error message
ValidateCurrencySymbol(symbol) ==
  LET normalized == Trim(ToUpperCase(symbol)) IN
  IF ~MatchesCurrencySymbolRegex(normalized)
  THEN InvalidCurrencySymbol(symbol)
  ELSE Null

\* validateCurrencySymbol(symbol) === null
CurrencySymbolValid(symbol) == ValidateCurrencySymbol(symbol) = Null

AllDigits(s) == s # <<>> /\ \A i \in DOMAIN s : s[i] \in Digits

\* /^\d+(\.\d+)?$/
MatchesAmountRegex(s) ==
  \/ AllDigits(s)
  \/ \E k \in DOMAIN s :
       /\ s[k] = "."
       /\ AllDigits(SubSeq(s, 1, k - 1))
       /\ AllDigits(SubSeq(s, k + 1, Len(s)))

DigitOrder == <<"0", "1", "2", "3", "4", "5", "6", "7", "8", "9">>
DigitValue(c) == (CHOOSE i \in DOMAIN DigitOrder : DigitOrder[i] = c) - 1

Repeat(c, n) == [i \in 1..n |-> c]

\* where the decimal point of a string that matches the amount regex is, 0
\* when it has none
PointAt(s) ==
  IF \E k \in DOMAIN s : s[k] = "." THEN CHOOSE k \in DOMAIN s : s[k] = "."
  ELSE 0

IntegerDigits(s) == IF PointAt(s) = 0 THEN s ELSE SubSeq(s, 1, PointAt(s) - 1)

FractionDigits(s) ==
  IF PointAt(s) = 0 THEN <<>> ELSE SubSeq(s, PointAt(s) + 1, Len(s))

RECURSIVE StripLeadingZeros(_)
StripLeadingZeros(s) ==
  IF s # <<>> /\ Head(s) = "0" THEN StripLeadingZeros(Tail(s)) ELSE s

PadRight(s, n) == IF Len(s) >= n THEN s ELSE s \o Repeat("0", n - Len(s))

\* two digit strings of one length compared as numbers: -1, 0 or 1
CompareDigits(a, b) ==
  IF a = b THEN 0
  ELSE LET k == CHOOSE i \in DOMAIN a :
                  a[i] # b[i] /\ \A j \in 1..(i - 1) : a[j] = b[j]
       IN  IF DigitValue(a[k]) < DigitValue(b[k]) THEN -1 ELSE 1

\* 2^1024 - 2^970, halfway between Number.MAX_VALUE and 2^1024: a decimal
\* from here on is rounded to Infinity
HalfwayToInfinity ==
  <<"1", "7", "9", "7", "6", "9", "3", "1", "3", "4", "8", "6", "2", "3",
    "1", "5", "8", "0", "7", "9", "3", "7", "2", "8", "9", "7", "1", "4",
    "0", "5", "3", "0", "3", "4", "1", "5", "0", "7", "9", "9", "3", "4",
    "1", "3", "2", "7", "1", "0", "0", "3", "7", "8", "2", "6", "9", "3",
    "6", "1", "7", "3", "7", "7", "8", "9", "8", "0", "4", "4", "4", "9",
    "6", "8", "2", "9", "2", "7", "6", "4", "7", "5", "0", "9", "4", "6",
    "6", "4", "9", "0", "1", "7", "9", "7", "7", "5", "8", "7", "2", "0",
    "7", "0", "9", "6", "3", "3", "0", "2", "8", "6", "4", "1", "6", "6",
    "9", "2", "8", "8", "7", "9", "1", "0", "9", "4", "6", "5", "5", "5",
    "5", "4", "7", "8", "5", "1", "9", "4", "0", "4", "0", "2", "6", "3",
    "0", "6", "5", "7", "4", "8", "8", "6", "7", "1", "5", "0", "5", "8",
    "2", "0", "6", "8", "1", "9", "0", "8", "9", "0", "2", "0", "0", "0",
    "7", "0", "8", "3", "8", "3", "6", "7", "6", "2", "7", "3", "8", "5",
    "4", "8", "4", "5", "8", "1", "7", "7", "1", "1", "5", "3", "1", "7",
    "6", "4", "4", "7", "5", "7", "3", "0", "2", "7", "0", "0", "6", "9",
    "8", "5", "5", "5", "7", "1", "3", "6", "6", "9", "5", "9", "6", "2",
    "2", "8", "4", "2", "9", "1", "4", "8", "1", "9", "8", "6", "0", "8",
    "3", "4", "9", "3", "6", "4", "7", "5", "2", "9", "2", "7", "1", "9",
    "0", "7", "4", "1", "6", "8", "4", "4", "4", "3", "6", "5", "5", "1",
    "0", "7", "0", "4", "3", "4", "2", "7", "1", "1", "5", "5", "9", "6",
    "9", "9", "5", "0", "8", "0", "9", "3", "0", "4", "2", "8", "8", "0",
    "1", "7", "7", "9", "0", "4", "1", "7", "4", "4", "9", "7", "7", "9",
    "2">>

\* the digits after the point of 2^-1075 = 5^1075 / 10^1075, half of
\* Number.MIN_VALUE: a decimal up to here is rounded to 0
HalfSmallest ==
  Repeat("0", 323) \o
  <<"2", "4", "7", "0", "3", "2", "8", "2", "2", "9", "2", "0", "6", "2",
    "3", "2", "7", "2", "0", "8", "8", "2", "8", "4", "3", "9", "6", "4",
    "3", "4", "1", "1", "0", "6", "8", "6", "1", "8", "2", "5", "2", "9",
    "9", "0", "1", "3", "0", "7", "1", "6", "2", "3", "8", "2", "2", "1",
    "2", "7", "9", "2", "8", "4", "1", "2", "5", "0", "3", "3", "7", "7",
    "5", "3", "6", "3", "5", "1", "0", "4", "3", "7", "5", "9", "3", "2",
    "6", "4", "9", "9", "1", "8", "1", "8", "0", "8", "1", "7", "9", "9",
    "6", "1", "8", "9", "8", "9", "8", "2", "8", "2", "3", "4", "7", "7",
    "2", "2", "8", "5", "8", "8", "6", "5", "4", "6", "3", "3", "2", "8",
    "3", "5", "5", "1", "7", "7", "9", "6", "9", "8", "9", "8", "1", "9",
    "9", "3", "8", "7", "3", "9", "8", "0", "0", "5", "3", "9", "0", "9",
    "3", "9", "0", "6", "3", "1", "5", "0", "3", "5", "6", "5", "9", "5",
    "1", "5", "5", "7", "0", "2", "2", "6", "3", "9", "2", "2", "9", "0",
    "8", "5", "8", "3", "9", "2", "4", "4", "9", "1", "0", "5", "1", "8",
    "4", "4", "3", "5", "9", "3", "1", "8", "0", "2", "8", "4", "9", "9",
    "3", "6", "5", "3", "6", "1", "5", "2", "5", "0", "0", "3", "1", "9",
    "3", "7", "0", "4", "5", "7", "6", "7", "8", "2", "4", "9", "2", "1",
    "9", "3", "6", "5", "6", "2", "3", "6", "6", "9", "8", "6", "3", "6",
    "5", "8", "4", "8", "0", "7", "5", "7", "0", "0", "1", "5", "8", "5",
    "7", "6", "9", "2", "6", "9", "9", "0", "3", "7", "0", "6", "3", "1",
    "1", "9", "2", "8", "2", "7", "9", "5", "5", "8", "5", "5", "1", "3",
    "3", "2", "9", "2", "7", "8", "3", "4", "3", "3", "8", "4", "0", "9",
    "3", "5", "1", "9", "7", "8", "0", "1", "5", "5", "3", "1", "2", "4",
    "6", "5", "9", "7", "2", "6", "3", "5", "7", "9", "5", "7", "4", "6",
    "2", "2", "7", "6", "6", "4", "6", "5", "2", "7", "2", "8", "2", "7",
    "2", "2", "0", "0", "5", "6", "3", "7", "4", "0", "0", "6", "4", "8",
    "5", "4", "9", "9", "9", "7", "7", "0", "9", "6", "5", "9", "9", "4",
    "7", "0", "4", "5", "4", "0", "2", "0", "8", "2", "8", "1", "6", "6",
    "2", "2", "6", "2", "3", "7", "8", "5", "7", "3", "9", "3", "4", "5",
    "0", "7", "3", "6", "3", "3", "9", "0", "0", "7", "9", "6", "7", "7",
    "6", "1", "9", "3", "0", "5", "7", "7", "5", "0", "6", "7", "4", "0",
    "1", "7", "6", "3", "2", "4", "6", "7", "3", "6", "0", "0", "9", "6",
    "8", "9", "5", "1", "3", "4", "0", "5", "3", "5", "5", "3", "7", "4",
    "5", "8", "5", "1", "6", "6", "6", "1", "1", "3", "4", "2", "2", "3",
    "7", "6", "6", "6", "7", "8", "6", "0", "4", "1", "6", "2", "1", "5",
    "9", "6", "8", "0", "4", "6", "1", "9", "1", "4", "4", "6", "7", "2",
    "9", "1", "8", "4", "0", "3", "0", "0", "5", "3", "0", "0", "5", "7",
    "5", "3", "0", "8", "4", "9", "0", "4", "8", "7", "6", "5", "3", "9",
    "1", "7", "1", "1", "3", "8", "6", "5", "9", "1", "6", "4", "6", "2",
    "3", "9", "5", "2", "4", "9", "1", "2", "6", "2", "3", "6", "5", "3",
    "8", "8", "1", "8", "7", "9", "6", "3", "6", "2", "3", "9", "3", "7",
    "3", "2", "8", "0", "4", "2", "3", "8", "9", "1", "0", "1", "8", "6",
    "7", "2", "3", "4", "8", "4", "9", "7", "6", "6", "8", "2", "3", "5",
    "0", "8", "9", "8", "6", "3", "3", "8", "8", "5", "8", "7", "9", "2",
    "5", "6", "2", "8", "3", "0", "2", "7", "5", "5", "9", "9", "5", "6",
    "5", "7", "5", "2", "4", "4", "5", "5", "5", "0", "7", "2", "5", "5",
    "1", "8", "9", "3", "1", "3", "6", "9", "0", "8", "3", "6", "2", "5",
    "4", "7", "7", "9", "1", "8", "6", "9", "4", "8", "6", "6", "7", "9",
    "9", "4", "9", "6", "8", "3", "2", "4", "0", "4", "9", "7", "0", "5",
    "8", "2", "1", "0", "2", "8", "5", "1", "3", "1", "8", "5", "4", "5",
    "1", "3", "9", "6", "2", "1", "3", "8", "3", "7", "7", "2", "2", "8",
    "2", "6", "1", "4", "5", "4", "3", "7", "6", "9", "3", "4", "1", "2",
    "5", "3", "2", "0", "9", "8", "5", "9", "1", "3", "2", "7", "6", "6",
    "7", "2", "3", "6", "3", "2", "8", "1", "2", "5">>

\* parseFloat(s) for a string that matches the amount regex, as the double
\* it is rounded to: "zero", "positive" (and finite) or "Infinity"
ParseFloat(s) ==
  LET whole == StripLeadingZeros(IntegerDigits(s))
      fraction == FractionDigits(s)
      width == IF Len(fraction) > Len(HalfSmallest) THEN Len(fraction)
               ELSE Len(HalfSmallest)
  IN  IF whole # <<>>
      THEN IF Len(whole) > Len(HalfwayToInfinity) THEN "Infinity"
           ELSE IF Len(whole) < Len(HalfwayToInfinity) THEN "positive"
           ELSE IF CompareDigits(whole, HalfwayToInfinity) >= 0
           THEN "Infinity"
           ELSE "positive"
      ELSE IF CompareDigits(PadRight(fraction, width),
                            PadRight(HalfSmallest, width)) <= 0
      THEN "zero"
      ELSE "positive"

\* `numValue <= 0` for a string that matches the amount regex (the value is
\* never negative)
ParsesToZero(s) == ParseFloat(s) = "zero"

\* a validator for which every number is finite
AlwaysFinite(s) == TRUE

\* isFinite(numValue)
IsFinite(s) == ParseFloat(s) # "Infinity"

\* `Invalid amount: "${amount}". <rule>`
InvalidAmountPrefix ==
  <<"I", "n", "v", "a", "l", "i", "d", " ", "a", "m", "o", "u", "n", "t",
    ":", " ", "\"">>
MustBePositiveNumber ==
  <<"\"", ".", " ", "M", "u", "s", "t", " ", "b", "e", " ", "a", " ", "p",
    "o", "s", "i", "t", "i", "v", "e", " ", "n", "u", "m", "b", "e", "r",
    ".">>
MustBeGreaterThanZero ==
  <<"\"", ".", " ", "M", "u", "s", "t", " ", "b", "e", " ", "g", "r", "e",
    "a", "t", "e", "r", " ", "t", "h", "a", "n", " ", "z", "e", "r", "o",
    ".">>
NumberIsNotFinite ==
  <<"\"", ".", " ", "N", "u", "m", "b", "e", "r", " ", "i", "s", " ", "n",
    "o", "t", " ", "f", "i", "n", "i", "t", "e", ".">>

InvalidAmount(amount, rule) == InvalidAmountPrefix \o amount \o rule

\* validateAmount(amount): null, or the error message
ValidateAmount(amount) ==
  LET trimmed == Trim(amount) IN
  IF ~MatchesAmountRegex(trimmed)
  THEN InvalidAmount(amount, MustBePositiveNumber)
  ELSE IF ParsesToZero(trimmed)
  THEN InvalidAmount(amount, MustBeGreaterThanZero)
  ELSE IF ~IsFinite(trimmed)
  THEN InvalidAmount(amount, NumberIsNotFinite)
  ELSE Null

\* validateAmount(amount) === null
AmountValid(amount) == ValidateAmount(amount) = Null

----------------------------------------------------------------------------
(* Values *)

\* the JavaScript value undefined, where a string is optional
Undefined == <<"undefined">>
\* the empty string
EmptyString == <<>>

\* truthiness of an optional string: undefined and "" are falsy
Truthy(s) == s # Undefined /\ s # EmptyString

\* 5 * 60 * 1000
TTL == 300000

\* `confirm_${Date.now()}_${Math.random().toString(36).substring(2, 8)}`
GenerateConfirmationId(t, r) == <<"confirm", t, r>>

\* an id string that generateConfirmationId never produced
BogusId == <<"confirm", 0, 0>>

CreateSwapKeys == <<"from_currency", "to_currency", "from_amount">>
StartTradeKeys == <<"offer_uuid", "amount">>

\* Object.entries order of the normalizedParams literal of each handler
KeysOf(params) ==
  IF "offer_uuid" \in DOMAIN params THEN StartTradeKeys ELSE CreateSwapKeys

\* params[key] of a Record<string, unknown>
Lookup(params, key) ==
  IF key \in DOMAIN params THEN params[key] ELSE Undefined

\* Map.prototype.set / Map.prototype.delete
MapSet(m, k, v) == [x \in DOMAIN m \cup {k} |-> IF x = k THEN v ELSE m[x]]
MapDelete(m, k) == [x \in DOMAIN m \ {k} |-> m[x]]

----------------------------------------------------------------------------
(* The confirmation store *)

\* interface PendingConfirmation
PendingConfirmation(action, params, expiresAt) ==
  [action |-> action, params |-> params, expiresAt |-> expiresAt]

\* a validateConfirmation whose expiry test lets a record live one
\* millisecond too long
IsExpiredLate(pending, t) == pending.expiresAt + 1 < t

\* `pending.expiresAt < Date.now()` of validateConfirmation
IsExpired(pending, t) == pending.expiresAt < t

\* a sweep that finds nothing to remove
SweepSelectsNone(confirmation, t) == FALSE

\* a sweep that takes the record at the instant it expires
SweepSelectsEarly(confirmation, t) == confirmation.expiresAt <= t

\* `confirmation.expiresAt < now` of cleanupExpiredConfirmations
SweepSelects(confirmation, t) == confirmation.expiresAt < t

\* cleanupExpiredConfirmations(): the store after one run at time t
CleanupExpiredConfirmations(m, t) ==
  [id \in {x \in DOMAIN m : ~SweepSelects(m[x], t)} |-> m[id]]

\* a validateConfirmation that does not compare the action
ActionIgnored(pending, expectedAction) == TRUE

\* `pending.action !== expectedAction` does not hold
ActionMatches(pending, expectedAction) == pending.action = expectedAction

\* a parameter loop that returns after its first iteration
FirstKeyOnly(pending, expectedParams) ==
  LET keys == KeysOf(expectedParams) IN
  IF Lookup(pending.params, keys[1]) # expectedParams[keys[1]]
  THEN keys[1] ELSE ""

\* a parameter loop that reports the last key that differs
LastDifferingKey(pending, expectedParams) ==
  LET keys == KeysOf(expectedParams)
      bad  == {i \in DOMAIN keys :
                 Lookup(pending.params, keys[i]) # expectedParams[keys[i]]}
  IN  IF bad = {} THEN ""
      ELSE keys[CHOOSE i \in bad : \A j \in bad : i >= j]

\* a parameter loop that skips the amounts
AmountsSkipped(pending, expectedParams) ==
  LET keys == KeysOf(expectedParams)
      bad  == {i \in DOMAIN keys :
                 /\ keys[i] \notin {"from_amount", "amount"}
                 /\ Lookup(pending.params, keys[i]) # expectedParams[keys[i]]}
  IN  IF bad = {} THEN ""
      ELSE keys[CHOOSE i \in bad : \A j \in bad : i <= j]

\* two amounts that pass validateAmount denote the same number
SameNumber(a, b) ==
  LET x == Trim(a)
      y == Trim(b)
      width == IF Len(FractionDigits(x)) > Len(FractionDigits(y))
               THEN Len(FractionDigits(x)) ELSE Len(FractionDigits(y))
  IN  /\ StripLeadingZeros(IntegerDigits(x)) =
           StripLeadingZeros(IntegerDigits(y))
      /\ PadRight(FractionDigits(x), width) = PadRight(FractionDigits(y), width)

\* a parameter loop that compares the amounts as numbers
AmountsAsNumbers(pending, expectedParams) ==
  LET keys == KeysOf(expectedParams)
      bad  == {i \in DOMAIN keys :
                 IF keys[i] \in {"from_amount", "amount"}
                 THEN ~SameNumber(Lookup(pending.params, keys[i]),
                                  expectedParams[keys[i]])
                 ELSE Lookup(pending.params, keys[i])
                        # expectedParams[keys[i]]}
  IN  IF bad = {} THEN ""
      ELSE keys[CHOOSE i \in bad : \A j \in bad : i <= j]

\* the loop over Object.entries(expectedParams): the first key whose stored
\* value is not === the expected one, "" when there is none
FirstDifferingKey(pending, expectedParams) ==
  LET keys == KeysOf(expectedParams)
      bad  == {i \in DOMAIN keys :
                 Lookup(pending.params, keys[i]) # expectedParams[keys[i]]}
  IN  IF bad = {} THEN ""
      ELSE keys[CHOOSE i \in bad : \A j \in bad : i <= j]

\* a redemption that empties the store
ConsumeAll(m, confirmationId) == [x \in {} |-> x]

\* a redemption that leaves the record it accepted in the store
RedeemedKept(m, confirmationId) == m

\* pendingConfirmations.delete(confirmationId) after every check passed
ConsumeConfirmation(m, confirmationId) == MapDelete(m, confirmationId)

\* an expiry branch that forgets its delete
ExpiredKept(m, confirmationId) == m

\* pendingConfirmations.delete(confirmationId) of the expiry branch
DropExpired(m, confirmationId) == MapDelete(m, confirmationId)

\* an error return that deletes the record it refuses
RefusalDeleting(m, confirmationId, out, key) ==
  [out |-> out, key |-> key, store |-> MapDelete(m, confirmationId)]

\* the error returns of validateConfirmation that touch nothing: not found,
\* wrong action, parameter mismatch
Refusal(m, confirmationId, out, key) == [out |-> out, key |-> key, store |-> m]

\* a validateConfirmation that looks at the clock last
ExpiryCheckedLast(m, confirmationId, expectedAction, expectedParams, t) ==
  IF confirmationId \notin DOMAIN m
  THEN Refusal(m, confirmationId, "NotFound", "")
  ELSE LET pending == m[confirmationId]
           key == FirstDifferingKey(pending, expectedParams)
       IN
    IF ~ActionMatches(pending, expectedAction)
    THEN Refusal(m, confirmationId, "WrongAction", "")
    ELSE IF key # ""
    THEN Refusal(m, confirmationId, "ParameterMismatch", key)
    ELSE IF IsExpired(pending, t)
    THEN [out |-> "Expired", key |-> "",
          store |-> DropExpired(m, confirmationId)]
    ELSE [out |-> "Ok", key |-> "",
          store |-> ConsumeConfirmation(m, confirmationId)]

\* validateConfirmation(confirmationId, expectedAction, expectedParams) at
\* time t on store m: the error kind ("Ok" for null), the key named by a
\* ParameterMismatch, and the store it leaves
ValidateConfirmation(m, confirmationId, expectedAction, expectedParams, t) ==
  IF confirmationId \notin DOMAIN m
  THEN Refusal(m, confirmationId, "NotFound", "")
  ELSE LET pending == m[confirmationId]
           key == FirstDifferingKey(pending, expectedParams)
       IN
    IF IsExpired(pending, t)
    THEN [out |-> "Expired", key |-> "",
          store |-> DropExpired(m, confirmationId)]
    ELSE IF ~ActionMatches(pending, expectedAction)
    THEN Refusal(m, confirmationId, "WrongAction", "")
    ELSE IF key # ""
    THEN Refusal(m, confirmationId, "ParameterMismatch", key)
    ELSE [out |-> "Ok", key |-> "",
          store |-> ConsumeConfirmation(m, confirmationId)]

----------------------------------------------------------------------------
(* Inputs *)

ApiTokens == {EmptyString, <<"k">>}

ETH == <<"E", "T", "H">>
BTC == <<"B", "T", "C">>
USDT == <<"U", "S", "D", "T">>
One == <<"1", ".", "0">>

\* requests to create_swap: from_currency, to_currency, from_amount
SwapInputs ==
  { <<ETH, USDT, One>>,
    << <<"e", "t", "h">>, <<"u", "s", "d", "t">>, One >>,
    <<BTC, USDT, One>>,
    <<ETH, BTC, One>>,
    <<ETH, USDT, <<"1">> >>,
    <<BTC, BTC, <<"2">> >>,
    << <<" ", "E", "T", "H">>, USDT, One>>,
    << <<"E">>, USDT, One>>,
    <<ETH, <<"U", "S", "-", "D">>, One>>,
    <<ETH, USDT, <<"0", ".", "0">> >> }

\* requests to start_trade: offer_uuid, amount
TradeInputs ==
  { << <<"u", "1">>, One>>,
    << <<"u", "2">>, One>>,
    << <<"u", "1">>, <<"1">> >>,
    << <<"u", "2">>, <<"2">> >>,
    << <<"u", "1">>, <<"-", "1">> >> }

\* params.confirm: absent, true, false
ConfirmInputs == {"undefined", "true", "false"}

\* the confirmation_id values a caller may send: none, "", an id that was
\* issued, an id that was never issued
ConfirmationIdInputs ==
  {Undefined, EmptyString, BogusId} \cup DOMAIN pendingConfirmations
    \cup DOMAIN ledger

\* The requests the runs are built from.  The claims range over all of
\* SwapInputs, TradeInputs, ConfirmInputs and ConfirmationIdInputs in every
\* state these runs reach.
SwapRequests ==
  { <<ETH, USDT, One>>, <<BTC, USDT, One>>, << <<"E">>, USDT, One>> }
TradeRequests ==
  { << <<"u", "1">>, One>>, << <<"u", "1">>, <<"-", "1">> >> }
ConfirmRequests == {"undefined", "true", "false"}
ConfirmationIdRequests == {Undefined} \cup DOMAIN ledger

\* Math.random(): the suffix drawn either repeats one drawn earlier in this
\* millisecond or is a new one; which new one does not matter, so the least
\* unused suffix stands for them all
SuffixChoices ==
  LET used == {id[3] : id \in {x \in DOMAIN ledger : x[2] = now}}
      free == RandomSuffixes \ used
  IN  used \cup (IF free = {} THEN {}
                 ELSE {CHOOSE r \in free : \A q \in free : r <= q})

\* spellings of the symbols ETH and USDT that pass validateCurrencySymbol
FromSpellings ==
  { ETH, <<"e", "t", "h">>, <<"E", "t", "h">>, <<" ", "E", "T", "H">>,
    <<"e", "t", "h", " ">> }
ToSpellings == { USDT, <<"u", "s", "d", "t">>, <<"U", "s", "D", "t">> }

\* spellings of the number one that pass validateAmount
AmountSpellings ==
  { One, <<"1", ".", "0", "0">>, <<"1">>, <<"0", "1", ".", "0">>,
    <<"1", ".", "0", " ">> }

\* The strings of the input space, and what validateCurrencySymbol,
\* validateAmount and toUpperCase make of each of them, evaluated once
SymbolInputs ==
  {p[1] : p \in SwapInputs} \cup {p[2] : p \in SwapInputs}
    \cup FromSpellings \cup ToSpellings
AmountInputs ==
  {p[3] : p \in SwapInputs} \cup {p[2] : p \in TradeInputs}
    \cup AmountSpellings
ValidSymbols == {x \in SymbolInputs : CurrencySymbolValid(x)}
ValidAmounts == {x \in AmountInputs : AmountValid(x)}
UpperCased == [x \in SymbolInputs |-> ToUpperCase(x)]

\* validateCurrencySymbol(symbol) === null, as the handlers ask it
SymbolPasses(symbol) ==
  IF symbol \in SymbolInputs THEN symbol \in ValidSymbols
  ELSE CurrencySymbolValid(symbol)

\* a handler that takes every amount
AmountUnchecked(amount) == TRUE

\* validateAmount(amount) === null, as the handlers ask it
AmountPasses(amount) ==
  IF amount \in AmountInputs THEN amount \in ValidAmounts
  ELSE AmountValid(amount)

\* a handler that binds the symbol as it was given
AsGiven(symbol) == symbol

\* symbol.toUpperCase(), as the handlers ask it
Upper(symbol) ==
  IF symbol \in SymbolInputs THEN UpperCased[symbol] ELSE ToUpperCase(symbol)

----------------------------------------------------------------------------
(* What a handler step does *)

NoParams == [none |-> Undefined]

ErrorOuts == {"ApiTokenMissing", "InvalidSymbol", "InvalidAmount", "NotFound",
              "Expired", "WrongAction", "ParameterMismatch",
              "UpstreamFailure", "InvalidRange"}

Executors == {"createSwap", "startTrade"}

\* a handler suspended at `await client.<at>(...)`, with what the rest of
\* the handler reads and what the history needs: cid is the confirmation_id
\* that authorised an executor call, np the normalized parameters (kept
\* where the record is stored after the await), id the confirmation id the
\* handler stored before the await
Continuation(at, cid, np, id) == [at |-> at, cid |-> cid, np |-> np, id |-> id]

NoContinuation == Continuation("none", Undefined, NoParams, Undefined)

\* The effect of one handler step.  out: the ToolResponse returned
\* ("awaiting" when the handler suspends instead); redeem: what
\* validateConfirmation returned in this step ("none": not called); key: the
\* key a ParameterMismatch names; call / args: the Trading Service operation
\* the step invokes and its arguments; id: the confirmation id the step
\* stores or returns; store: pendingConfirmations after the step; cont: the
\* continuation the step leaves suspended; text: the text of the response
\* the catch block builds (the wording of the other responses is left out)
Outcome(out, redeem, key, call, args, id, store, cont) ==
  [out |-> out, isError |-> out \in ErrorOuts, redeem |-> redeem, key |-> key,
   call |-> call, args |-> args, id |-> id, store |-> store, cont |-> cont,
   text |-> EmptyString]

\* `return { content: [...], isError: true }` before the gate
Reject(out) ==
  Outcome(out, "none", "", "none", NoParams, Undefined, pendingConfirmations,
          NoContinuation)

\* a handler that takes the credential for granted
ApiTokenAssumed == TRUE

\* requireApiToken(config) === null
ApiTokenConfigured == Truthy(config.apiToken)

\* a gate on which an explicit confirm = false opts out of the confirmation
FalseOptsOut(confirm, cid) ==
  config.requireConfirmation /\ confirm = "undefined" /\ ~Truthy(cid)

\* a gate that asks for a confirmation whatever confirm says
ConfirmIgnored(confirm, cid) == config.requireConfirmation /\ ~Truthy(cid)

\* `config.requireConfirmation && params.confirm !== true &&
\*  !params.confirmation_id`: the request takes the issue-a-token branch
NeedsConfirmation(confirm, cid) ==
  config.requireConfirmation /\ confirm # "true" /\ ~Truthy(cid)

\* normalizedParams of handleCreateSwap
NormalizeSwapParams(from, to, amount) ==
  [from_currency |-> Upper(from), to_currency |-> Upper(to),
   from_amount |-> amount]

\* normalizedParams of handleStartTrade
NormalizeTradeParams(uuid, amount) == [offer_uuid |-> uuid, amount |-> amount]

\* a record that lives for one minute
IssueForAMinute(m, confirmId, action, np, t) ==
  MapSet(m, confirmId, PendingConfirmation(action, np, t + 60000))

\* pendingConfirmations.set(confirmId, {action, params, expiresAt})
IssueConfirmation(m, confirmId, action, np, t) ==
  MapSet(m, confirmId, PendingConfirmation(action, np, t + TTL))

\* `await client.<executor>(normalizedParams)`
CallExecutor(executor, cid, np, redeem, store) ==
  Outcome("awaiting", redeem, "", executor, np, Undefined, store,
          Continuation(executor, IF redeem = "Ok" THEN cid ELSE Undefined,
                       NoParams, Undefined))

\* a handler that goes on to the executor whatever validateConfirmation
\* returned
ExecuteUnchecked(action, executor, cid, np) ==
  IF Truthy(cid)
  THEN LET v == ValidateConfirmation(pendingConfirmations, cid, action, np,
                                     now) IN
       CallExecutor(executor, cid, np, v.out, v.store)
  ELSE CallExecutor(executor, cid, np, "none", pendingConfirmations)

\* `if (params.confirmation_id) { ... validateConfirmation(...) ... }`
\* followed by the executor call
RedeemAndExecute(action, executor, cid, np) ==
  IF Truthy(cid)
  THEN LET v == ValidateConfirmation(pendingConfirmations, cid, action, np,
                                     now) IN
       IF v.out # "Ok"
       THEN Outcome(v.out, v.out, v.key, "none", NoParams, Undefined, v.store,
                    NoContinuation)
       ELSE CallExecutor(executor, cid, np, "Ok", v.store)
  ELSE CallExecutor(executor, cid, np, "none", pendingConfirmations)

\* handleCreateSwap from its invocation to its first await or return; r is
\* the value Math.random() gives if the handler generates an id
CreateSwapCall(from, to, amount, confirm, cid, r) ==
  LET np == NormalizeSwapParams(from, to, amount)
      confirmId == GenerateConfirmationId(now, r)
  IN
  IF ~ApiTokenConfigured THEN Reject("ApiTokenMissing")
  ELSE IF ~SymbolPasses(from) THEN Reject("InvalidSymbol")
  ELSE IF ~SymbolPasses(to) THEN Reject("InvalidSymbol")
  ELSE IF ~AmountPasses(amount) THEN Reject("InvalidAmount")
  ELSE IF NeedsConfirmation(confirm, cid)
  THEN Outcome("awaiting", "none", "", "estimateSwap", np, confirmId,
               IssueConfirmation(pendingConfirmations, confirmId,
                                 "create_swap", np, now),
               Continuation("estimateSwap", Undefined, NoParams, confirmId))
  ELSE RedeemAndExecute("create_swap", "createSwap", cid, np)

\* handleStartTrade from its invocation to its first await or return
StartTradeCall(uuid, amount, confirm, cid) ==
  LET np == NormalizeTradeParams(uuid, amount) IN
  IF ~ApiTokenConfigured THEN Reject("ApiTokenMissing")
  ELSE IF ~AmountPasses(amount) THEN Reject("InvalidAmount")
  ELSE IF NeedsConfirmation(confirm, cid)
  THEN Outcome("awaiting", "none", "", "getOffer", np, Undefined,
               pendingConfirmations,
               Continuation("getOffer", Undefined, np, Undefined))
  ELSE RedeemAndExecute("start_trade", "startTrade", cid, np)

\* a response built after an await, with no further call
Respond(out, id, store) ==
  Outcome(out, "none", "", "none", NoParams, id, store, NoContinuation)

\* How an awaited Trading Service call settles: it resolves, or it rejects
\* with an Error object carrying a message, with a string, or with
\* undefined.  A value that is not an Error has no message property.
Settlement(ok, kind, message, value) ==
  [ok |-> ok, kind |-> kind, message |-> message, value |-> value]

Resolved == Settlement(TRUE, "value", Undefined, Undefined)

NetworkError == <<"N", "e", "t", "w", "o", "r", "k", " ", "e", "r", "r", "o", "r">>
StringError == <<"S", "t", "r", "i", "n", "g", " ", "e", "r", "r", "o", "r">>

Rejections ==
  {Settlement(FALSE, "Error", NetworkError, Undefined),
   Settlement(FALSE, "Error", EmptyString, Undefined),
   Settlement(FALSE, "string", Undefined, StringError),
   Settlement(FALSE, "undefined", Undefined, Undefined)}

Settlements == {Resolved} \cup Rejections

\* String(error) of a value that is not an Error
StringOf(error) ==
  IF error.kind = "undefined" THEN <<"u", "n", "d", "e", "f", "i", "n", "e", "d">> ELSE error.value

\* `error instanceof Error ? error.message : String(error)`
ErrorText(error) ==
  IF error.kind = "Error" THEN error.message ELSE StringOf(error)

\* the text the catch block of the handler suspended at `at` starts with
CatchPrefix(at) ==
  IF at \in {"estimateSwap", "createSwap"}
  THEN <<"E", "r", "r", "o", "r", " ", "c", "r", "e", "a", "t", "i", "n", "g",
    " ", "s", "w", "a", "p", ":", " ">>
  ELSE IF at = "searchOffers"
  THEN <<"E", "r", "r", "o", "r", " ", "s", "e", "a", "r", "c", "h", "i", "n",
    "g", " ", "o", "f", "f", "e", "r", "s", ":", " ">>
  ELSE <<"E", "r", "r", "o", "r", " ", "s", "t", "a", "r", "t", "i", "n", "g",
    " ", "t", "r", "a", "d", "e", ":", " ">>

\* a handler without its try / catch: the rejection reaches the caller
Rethrow(at, error) ==
  Outcome("thrown", "none", "", "none", NoParams, Undefined,
          pendingConfirmations, NoContinuation)

\* `catch (error) { return { content: [...], isError: true } }`
CatchBlock(at, error) ==
  [Respond("UpstreamFailure", Undefined, pendingConfirmations)
     EXCEPT !.text = CatchPrefix(at) \o ErrorText(error)]

\* a handler that goes on to the executor when its awaited call has settled
ExecuteAfterwards(c, settled, r) ==
  CallExecutor(IF c.at \in {"estimateSwap", "createSwap"} THEN "createSwap"
               ELSE "startTrade",
               Undefined, c.np, "none", pendingConfirmations)

\* a suspended handler resumes with the settlement of the awaited call: the
\* catch block turns a rejection into an error response; r is the value
\* Math.random() gives if the handler generates an id
Resume(c, settled, r) ==
  LET confirmId == GenerateConfirmationId(now, r) IN
  IF ~settled.ok THEN CatchBlock(c.at, settled)
  ELSE IF c.at = "estimateSwap"
  THEN Respond("confirmation_required", c.id, pendingConfirmations)
  ELSE IF c.at = "getOffer"
  THEN Respond("confirmation_required", confirmId,
               IssueConfirmation(pendingConfirmations, confirmId,
                                 "start_trade", c.np, now))
  ELSE IF c.at = "createSwap"
  THEN Respond("swap_created", Undefined, pendingConfirmations)
  ELSE Respond("trade_started", Undefined, pendingConfirmations)

----------------------------------------------------------------------------
(* History *)

Tags(id) == IF id \in DOMAIN ledger THEN ledger[id] ELSE {}

Note(l, id, tags) ==
  [x \in DOMAIN l \cup {id} |->
     IF x = id THEN (IF x \in DOMAIN l THEN l[x] ELSE {}) \cup tags
     ELSE l[x]]

\* an outcome stores a new record
Issues(o) == o.redeem = "none" /\ o.store # pendingConfirmations

\* the ledger after a step with outcome o of a request carrying cid: the
\* end of a record by redemption is noted under cid, an issuance under the
\* new id
Record(cid, o) ==
  LET a == IF o.redeem = "Ok" THEN Note(ledger, cid, {"spent"})
           ELSE IF o.redeem = "Expired" THEN Note(ledger, cid, {"expired"})
           ELSE ledger
      b == IF ~Issues(o) THEN a
           ELSE IF o.id \in DOMAIN ledger THEN Note(a, o.id, {"reused"})
           ELSE Note(a, o.id, {})
  IN  b

\* what the latest step did with the store: nothing (with the error, when
\* the request was turned away before the gate or the awaited call was
\* rejected, and then with the confirmation_id that had authorised the
\* call), a redemption of id with its result, or the creation of a record
\* under id
StoreOp(op, result, id) == [op |-> op, result |-> result, id |-> id]

NoEvent == StoreOp("none", "none", Undefined)

Summary(cid, o) ==
  IF o.redeem # "none" THEN StoreOp("redeem", o.redeem, cid)
  ELSE IF o.store # pendingConfirmations THEN StoreOp("create", "Ok", o.id)
  ELSE IF o.out \in {"ApiTokenMissing", "InvalidSymbol", "InvalidAmount"}
  THEN StoreOp("none", o.out, Undefined)
  ELSE IF o.out = "UpstreamFailure" THEN StoreOp("none", o.out, cid)
  ELSE NoEvent

\* the state after a handler step with outcome o
Apply(cid, o) ==
  /\ pendingConfirmations' = o.store
  /\ last' = Summary(cid, o)
  /\ ledger' = Record(cid, o)
  /\ IF Issues(o)
     THEN issued < MaxIssued /\ issued' = issued + 1
     ELSE issued' = issued
  /\ UNCHANGED <<now, config, cleanupInterval, timers>>

----------------------------------------------------------------------------
(* Actions *)

\* a handler step with outcome o suspends or returns
Schedule(o) ==
  IF o.cont # NoContinuation
  THEN /\ BagCardinality(inflight) < MaxInflight
       /\ inflight' = inflight (+) SetToBag({o.cont})
  ELSE UNCHANGED inflight

HandleCreateSwap ==
  \E p \in SwapRequests, confirm \in ConfirmRequests,
     cid \in ConfirmationIdRequests :
    \E r \in IF NeedsConfirmation(confirm, cid) THEN SuffixChoices ELSE {1} :
      LET o == CreateSwapCall(p[1], p[2], p[3], confirm, cid, r) IN
      Apply(cid, o) /\ Schedule(o)

HandleStartTrade ==
  \E p \in TradeRequests, confirm \in ConfirmRequests,
     cid \in ConfirmationIdRequests :
    LET o == StartTradeCall(p[1], p[2], confirm, cid) IN
    Apply(cid, o) /\ Schedule(o)

HandlerResumes ==
  \E c \in BagToSet(inflight), settled \in Settlements :
    \E r \in IF c.at = "getOffer" /\ settled.ok THEN SuffixChoices ELSE {1} :
      /\ Apply(c.cid, Resume(c, settled, r))
      /\ inflight' = inflight (-) SetToBag({c})

\* a start that sets a new interval timer without clearing the one it has
StartWithoutClearing ==
  LET h == CHOOSE x \in 1..(Cardinality(timers) + 1) : x \notin timers
  IN  /\ timers' = timers \cup {h}
      /\ cleanupInterval' = h
      /\ last' = NoEvent
      /\ UNCHANGED <<now, config, pendingConfirmations, inflight, ledger,
                     issued>>

\* startConfirmationCleanup(intervalMs)
StartConfirmationCleanup ==
  LET cleared == IF cleanupInterval # 0 THEN timers \ {cleanupInterval}
                 ELSE timers
      h == CHOOSE x \in 1..(Cardinality(cleared) + 1) : x \notin cleared
  IN  /\ timers' = cleared \cup {h}
      /\ cleanupInterval' = h
      /\ last' = NoEvent
      /\ UNCHANGED <<now, config, pendingConfirmations, inflight, ledger,
                     issued>>

\* stopConfirmationCleanup()
StopConfirmationCleanup ==
  /\ IF cleanupInterval # 0
     THEN /\ timers' = timers \ {cleanupInterval}
          /\ cleanupInterval' = 0
     ELSE UNCHANGED <<timers, cleanupInterval>>
  /\ last' = NoEvent
  /\ UNCHANGED <<now, config, pendingConfirmations, inflight, ledger, issued>>

\* an active interval timer fires and runs cleanupExpiredConfirmations
Sweep ==
  /\ timers # {}
  /\ pendingConfirmations' =
       CleanupExpiredConfirmations(pendingConfirmations, now)
  /\ ledger' =
       [x \in DOMAIN ledger |->
          IF x \in DOMAIN pendingConfirmations
               /\ x \notin DOMAIN pendingConfirmations'
          THEN ledger[x] \cup {"swept"} ELSE ledger[x]]
  /\ last' = NoEvent
  /\ UNCHANGED <<now, config, cleanupInterval, timers, inflight, issued>>

\* the next call is made with another ServerConfig: config is an argument of
\* every handler call
Reconfigure ==
  /\ config' \in [apiToken : ApiTokens, requireConfirmation : BOOLEAN]
  /\ config' # config
  /\ last' = NoEvent
  /\ UNCHANGED <<now, pendingConfirmations, cleanupInterval, timers,
                 inflight, ledger, issued>>

\* the latest clock value explored
Horizon == TTL + 1

\* time passes: by a whole lifetime first, then millisecond by millisecond
Tick ==
  /\ now < Horizon
  /\ now' = IF now < TTL THEN TTL ELSE now + 1
  /\ last' = NoEvent
  /\ UNCHANGED <<config, pendingConfirmations, cleanupInterval, timers,
                 inflight, ledger, issued>>

----------------------------------------------------------------------------
(* The specification *)

Init ==
  /\ now = 0
  /\ config \in [apiToken : ApiTokens, requireConfirmation : BOOLEAN]
  /\ pendingConfirmations = [x \in {} |-> x]
  /\ cleanupInterval = 0
  /\ timers = {}
  /\ inflight = EmptyBag
  /\ last = NoEvent
  /\ ledger = [x \in {} |-> {}]
  /\ issued = 0

Next ==
  \/ HandleCreateSwap
  \/ HandleStartTrade
  \/ HandlerResumes
  \/ StartConfirmationCleanup
  \/ StopConfirmationCleanup
  \/ Sweep
  \/ Tick
  \/ Reconfigure

Spec == Init /\ [][Next]_vars

----------------------------------------------------------------------------
(* The store under a running sweep timer.  startConfirmationCleanup is      *)
(* called at server startup and stopConfirmationCleanup is not called       *)
(* again; setInterval keeps firing the sweep, and Date.now() goes past     *)
(* every expiresAt that was ever stored.                                   *)

Max(S) == CHOOSE x \in S : \A y \in S : y <= x

\* time passes until every record in the store has expired
Elapse ==
  /\ \E x \in DOMAIN pendingConfirmations :
       pendingConfirmations[x].expiresAt >= now
  /\ now' = 1 + Max({pendingConfirmations[x].expiresAt :
                       x \in DOMAIN pendingConfirmations})
  /\ last' = NoEvent
  /\ UNCHANGED <<config, pendingConfirmations, cleanupInterval, timers,
                 inflight, ledger, issued>>

LiveNext ==
  \/ HandleCreateSwap
  \/ HandleStartTrade
  \/ HandlerResumes
  \/ StartConfirmationCleanup
  \/ Sweep
  \/ Elapse

\* the interval timer fires again and again, and the clock does not stand
\* still
LiveSpec ==
  Init /\ [][LiveNext]_vars /\ WF_vars(Sweep) /\ WF_vars(Elapse)

----------------------------------------------------------------------------
(* The input checks on their own: the validators are called with strings    *)
(* of every shape, and last holds the call and what it returned.            *)

\* the strings over an alphabet, up to a length
Strings(alphabet, n) == UNION {[1..k -> alphabet] : k \in 0..n}

\* the longest amount strings of every shape
MaxAmountLen == 3

\* digit strings at the two ends of the doubles: 309 and 310 nines,
\* 2^1024 - 2^970 and the integer before it, 1 followed by 308 zeros, and
\* decimals at 2^-1075, just above it and below it
OneLess(s) ==
  [i \in DOMAIN s |->
     IF i = Len(s) THEN DigitOrder[DigitValue(s[i])] ELSE s[i]]
OneMore(s) ==
  [i \in DOMAIN s |->
     IF i = Len(s) THEN DigitOrder[DigitValue(s[i]) + 2] ELSE s[i]]

ExtremeAmounts ==
  { Repeat("9", 309), Repeat("9", 310), Repeat("9", 308),
    HalfwayToInfinity, OneLess(HalfwayToInfinity),
    <<"1">> \o Repeat("0", 308), <<"0">> \o HalfwayToInfinity,
    HalfwayToInfinity \o <<".", "5">>,
    <<"0", ".">> \o HalfSmallest,
    <<"0", ".">> \o OneMore(HalfSmallest),
    <<"0", ".">> \o OneLess(HalfSmallest),
    <<"0", ".">> \o HalfSmallest \o <<"0", "1">>,
    <<"0", ".">> \o Repeat("0", 400) \o <<"1">>,
    <<"0", ".">> \o Repeat("0", 322) \o <<"1">> }

AmountStrings ==
  Strings({"0", "1", ".", "-", " ", "a"}, MaxAmountLen)
    \cup { <<"1", ".", "5", "0">>, <<"1", "0", "0">>, <<"-", "1", ".", "0">>,
           <<"0", ".", "0", "0">>, <<" ", "1", ".", "0", " ">>,
           <<"1", ".", "2", ".", "3">>, <<"1", "e", "5">>,
           <<"+", "1">>, <<"0", "0", "0", "1">> }
    \cup ExtremeAmounts

\* the longest symbol strings of every shape
MaxSymbolLen == 3

SymbolStrings ==
  Strings({"a", "B", "7", "-", " "}, MaxSymbolLen)
    \cup {Repeat(c, n) : c \in {"a", "Z", "9"}, n \in 9..12}
    \cup {<<" ">> \o Repeat("z", n) \o <<" ", " ">> : n \in 9..11}
    \cup { <<"X">>, <<"U", "S", "D", "T">>, <<"u", "s", "d", "t">>,
           <<"B", "T", "@", "C">>, <<"B", "T", " ", "C">>,
           <<"b", "t", "c", "1", "2">>, <<" ", "E", "t", "H", " ">>,
           <<"V", "E", "R", "Y", "L", "O", "N", "G", "C", "U", "R", "R",
             "E", "N", "C", "Y">> }

\* what the latest call of a validator was given and what it returned
Call(op, input, result) == [op |-> op, id |-> input, result |-> result]

\* no call has been made yet.  The validators and handleSearchOffers keep no
\* state, so a call after another returns what it returns as the first
\* call: a run makes one call.
FirstCall == last.op = "none"

\* a handler calls validateAmount
CallValidateAmount ==
  /\ FirstCall
  /\ \E amount \in AmountStrings :
       last' = Call("validateAmount", amount, ValidateAmount(amount))
  /\ UNCHANGED <<now, config, pendingConfirmations, cleanupInterval, timers,
                 inflight, ledger, issued>>

\* The numbers of JavaScript that min_amount and max_amount are drawn from:
\* finite ones by their value, -0, NaN and the infinities; NoNumber is an
\* absent (undefined) number
Num(kind, value) == [kind |-> kind, value |-> value]

NoNumber == Num("undefined", 0)

Numbers ==
  {Num("finite", v) : v \in {-100, -1, 0, 1, 100}}
    \cup {Num("-0", 0), Num("NaN", 0), Num("Infinity", 0),
          Num("-Infinity", 0)}

\* a check that finds no number negative
NeverNegative(x) == FALSE

\* `x < 0`
LessThanZero(x) ==
  \/ x.kind = "-Infinity"
  \/ x.kind = "finite" /\ x.value < 0

ErrorColon == <<"E", "r", "r", "o", "r", ":", " ">>
MinAmountMustBeNonNegative ==
  <<"E", "r", "r", "o", "r", ":", " ", "m", "i", "n", "_", "a", "m", "o",
    "u", "n", "t", " ", "m", "u", "s", "t", " ", "b", "e", " ", "n", "o",
    "n", "-", "n", "e", "g", "a", "t", "i", "v", "e", ".">>
MaxAmountMustBeNonNegative ==
  <<"E", "r", "r", "o", "r", ":", " ", "m", "a", "x", "_", "a", "m", "o",
    "u", "n", "t", " ", "m", "u", "s", "t", " ", "b", "e", " ", "n", "o",
    "n", "-", "n", "e", "g", "a", "t", "i", "v", "e", ".">>

\* `return { content: [{ type: 'text', text }], isError: true }`
RejectWith(out, text) == [Reject(out) EXCEPT !.text = text]

\* `await client.searchOffers({...})`
CallSearchOffers(coin, fiat, min, max) ==
  Outcome("awaiting", "none", "", "searchOffers",
          [coin_currency |-> IF coin = Undefined THEN coin ELSE Upper(coin),
           fiat_currency |-> IF fiat = Undefined THEN fiat ELSE Upper(fiat),
           min_amount |-> min, max_amount |-> max],
          Undefined, pendingConfirmations,
          Continuation("searchOffers", Undefined, NoParams, Undefined))

\* handleSearchOffers from its invocation to its first await or return
SearchOffersCall(coin, fiat, min, max) ==
  IF Truthy(coin) /\ ValidateCurrencySymbol(coin) # Null
  THEN RejectWith("InvalidSymbol", ErrorColon \o ValidateCurrencySymbol(coin))
  ELSE IF Truthy(fiat) /\ ValidateCurrencySymbol(fiat) # Null
  THEN RejectWith("InvalidSymbol", ErrorColon \o ValidateCurrencySymbol(fiat))
  ELSE IF min # NoNumber /\ LessThanZero(min)
  THEN RejectWith("InvalidRange", MinAmountMustBeNonNegative)
  ELSE IF max # NoNumber /\ LessThanZero(max)
  THEN RejectWith("InvalidRange", MaxAmountMustBeNonNegative)
  ELSE CallSearchOffers(coin, fiat, min, max)

\* handleSearchOffers after `await client.searchOffers`
SearchOffersResume(c, settled) ==
  IF ~settled.ok THEN CatchBlock(c.at, settled)
  ELSE Respond("offers", Undefined, pendingConfirmations)

\* the strings coin_currency and fiat_currency are drawn from
CoinSymbols == {Undefined, ETH, <<"@", "x">>}
FiatSymbols == {Undefined, EmptyString, <<"u", "s", "d">>, <<"U">>}

\* how the search settles: it resolves, or rejects with an Error
SearchSettlements ==
  {Resolved, Settlement(FALSE, "Error", NetworkError, Undefined)}

\* handleSearchOffers, from its invocation to the response: the handler
\* reads and writes no state of the module, so what other handlers do while
\* it awaits the search does not show in it
HandleSearchOffers ==
  /\ FirstCall
  /\ \E coin \in CoinSymbols, fiat \in FiatSymbols,
        min \in Numbers \cup {NoNumber}, max \in Numbers \cup {NoNumber},
        settled \in SearchSettlements :
       LET o == SearchOffersCall(coin, fiat, min, max)
           done == IF o.cont = NoContinuation THEN o
                   ELSE SearchOffersResume(o.cont, settled)
       IN  last' = Call("handleSearchOffers", <<coin, fiat, min, max>>,
                        [out |-> done.out, isError |-> done.isError,
                         call |-> o.call, text |-> done.text])
  /\ UNCHANGED <<now, config, pendingConfirmations, cleanupInterval, timers,
                 inflight, ledger, issued>>

\* process.env: a variable is unset (undefined) or holds a string
False == <<"f", "a", "l", "s", "e">>
DefaultApiUrl == <<"https://api.localcoinswap.com">>

Environment ==
  [LCS_API_TOKEN : {Undefined, EmptyString, <<"k">>},
   LCS_API_URL : {Undefined, EmptyString, <<"https://custom.api.com">>},
   LCS_REQUIRE_CONFIRMATION :
     {Undefined, EmptyString, False, <<"t", "r", "u", "e">>,
      <<"y", "e", "s">>, <<"n", "o">>, <<"1">>, <<"0">>,
      <<"F", "a", "l", "s", "e">>, <<"F", "A", "L", "S", "E">>,
      <<" ", "f", "a", "l", "s", "e">>, <<"f", "a", "l", "s", "e", " ">>,
      <<"f", "a", "l", "s">>}]

\* `value || fallback` for an optional string
OrElse(value, fallback) == IF Truthy(value) THEN value ELSE fallback

\* a loadConfig that asks for confirmations only when told to
OnOnlyWhenTrue(value) == value = <<"t", "r", "u", "e">>

\* `process.env.LCS_REQUIRE_CONFIRMATION !== 'false'`
IsNotFalse(value) == value # False

\* loadConfig()
LoadConfig(env) ==
  [apiToken |-> OrElse(env.LCS_API_TOKEN, EmptyString),
   apiUrl |-> OrElse(env.LCS_API_URL, DefaultApiUrl),
   requireConfirmation |-> IsNotFalse(env.LCS_REQUIRE_CONFIRMATION)]

\* loadConfig is called at startup, under some environment
CallLoadConfig ==
  /\ FirstCall
  /\ \E env \in Environment : last' = Call("loadConfig", env, LoadConfig(env))
  /\ UNCHANGED <<now, config, pendingConfirmations, cleanupInterval, timers,
                 inflight, ledger, issued>>

\* a handler calls validateCurrencySymbol
CallValidateCurrencySymbol ==
  /\ FirstCall
  /\ \E symbol \in SymbolStrings :
       last' = Call("validateCurrencySymbol", symbol,
                    ValidateCurrencySymbol(symbol))
  /\ UNCHANGED <<now, config, pendingConfirmations, cleanupInterval, timers,
                 inflight, ledger, issued>>

ValidationNext ==
  \/ CallValidateAmount
  \/ CallValidateCurrencySymbol
  \/ HandleSearchOffers
  \/ CallLoadConfig

\* the validators and handleSearchOffers take no ServerConfig and touch no
\* state of the module: one configuration stands for all
ValidationInit ==
  Init /\ config = [apiToken |-> EmptyString, requireConfirmation |-> TRUE]

ValidationSpec == ValidationInit /\ [][ValidationNext]_vars

----------------------------------------------------------------------------
(* The binding of a confirmation to the parameters as they are spelled:     *)
(* the handlers are called with currency symbols in several letter cases    *)
(* and with surrounding whitespace, and with several spellings of one      *)
(* amount; last holds the request and what the handler's step did.         *)

\* the requests the runs are built from
SpelledSwapRequests ==
  { <<ETH, USDT, One>>,
    << <<"e", "t", "h">>, <<"u", "s", "d", "t">>, One >>,
    <<ETH, USDT, <<"1", ".", "0", "0">> >>,
    <<ETH, USDT, <<"1">> >>,
    << <<" ", "E", "T", "H">>, USDT, One>> }
SpelledTradeRequests ==
  { << <<"u", "1">>, One>>, << <<"u", "1">>, <<"1", ".", "0", "0">> >> }

\* what last keeps of the outcome of a handler step
StepResult(o) ==
  [out |-> o.out, isError |-> o.isError, redeem |-> o.redeem, key |-> o.key,
   call |-> o.call, args |-> o.args]

\* the state after a handler step with outcome o, the request kept in last
ApplySpelled(op, request, cid, o) ==
  /\ pendingConfirmations' = o.store
  /\ last' = Call(op, request \o <<cid>>, StepResult(o))
  /\ ledger' = Record(cid, o)
  /\ IF Issues(o)
     THEN issued < MaxIssued /\ issued' = issued + 1
     ELSE issued' = issued
  /\ UNCHANGED <<now, config, cleanupInterval, timers>>

\* handleCreateSwap is called without confirm, to have a confirmation
\* issued or to redeem one
CreateSwapSpelled ==
  \E p \in SpelledSwapRequests, cid \in ConfirmationIdRequests :
    \E r \in IF NeedsConfirmation("undefined", cid) THEN SuffixChoices
              ELSE {1} :
      LET o == CreateSwapCall(p[1], p[2], p[3], "undefined", cid, r) IN
      ApplySpelled("handleCreateSwap", p, cid, o) /\ Schedule(o)

\* handleStartTrade is called without confirm
StartTradeSpelled ==
  \E p \in SpelledTradeRequests, cid \in ConfirmationIdRequests :
    LET o == StartTradeCall(p[1], p[2], "undefined", cid) IN
    ApplySpelled("handleStartTrade", p, cid, o) /\ Schedule(o)

BindingNext ==
  \/ CreateSwapSpelled
  \/ StartTradeSpelled
  \/ HandlerResumes

\* the server runs with a credential and with confirmations required
BindingInit ==
  Init /\ config = [apiToken |-> <<"k">>, requireConfirmation |-> TRUE]

BindingSpec == BindingInit /\ [][BindingNext]_vars

----------------------------------------------------------------------------
(* The store as the tests inspect it: getPendingConfirmation is called      *)
(* between the steps of the handlers and the ticks of the clock; last      *)
(* holds the call and what it returned.                                    *)

\* a lookup that drops the record it finds expired
PeekDroppingExpired(m, id) ==
  [value |-> IF id \in DOMAIN m THEN m[id] ELSE Undefined,
   store |-> IF id \in DOMAIN m /\ IsExpired(m[id], now) THEN MapDelete(m, id)
             ELSE m]

\* getPendingConfirmation(id): `return pendingConfirmations.get(id)`, the
\* value returned and the store it leaves
GetPendingConfirmation(m, id) ==
  [value |-> IF id \in DOMAIN m THEN m[id] ELSE Undefined, store |-> m]

\* a test calls getPendingConfirmation with an id that was issued or with
\* one that never was
CallGetPendingConfirmation ==
  \E id \in DOMAIN ledger \cup {BogusId} :
    LET got == GetPendingConfirmation(pendingConfirmations, id) IN
    /\ pendingConfirmations' = got.store
    /\ last' = Call("getPendingConfirmation", id, got.value)
    /\ UNCHANGED <<now, config, cleanupInterval, timers, inflight, ledger,
                   issued>>

InspectionNext ==
  \/ HandleCreateSwap
  \/ HandleStartTrade
  \/ HandlerResumes
  \/ Tick
  \/ CallGetPendingConfirmation

InspectionSpec == BindingInit /\ [][InspectionNext]_vars

----------------------------------------------------------------------------
(* The create_swap and start_trade tools that createServer registers        *)
(* (src/src/index.ts).  They do not call the handlers above: they have      *)
(* their own gate, written inline, over the module-level map of their own   *)
(* module.  In ServerSpec the variable pendingConfirmations is that map,    *)
(* config is the ServerConfig createServer was given, and the await points  *)
(* and what follows them are those of the handlers.                         *)

\* `config.requireConfirmation && !confirm && !confirmation_id`
ToolNeedsConfirmation(confirm, cid) ==
  config.requireConfirmation /\ confirm # "true" /\ ~Truthy(cid)

\* the inline check of a supplied confirmation_id: the lookup, the expiry
\* test, the delete
ToolRedeem(m, confirmationId, t) ==
  IF confirmationId \notin DOMAIN m
  THEN [out |-> "NotFound", key |-> "", store |-> m]
  ELSE IF m[confirmationId].expiresAt < t
  THEN [out |-> "Expired", key |-> "", store |-> MapDelete(m, confirmationId)]
  ELSE [out |-> "Ok", key |-> "", store |-> MapDelete(m, confirmationId)]

\* `if (confirmation_id) { ... }` followed by the executor call
ToolRedeemAndExecute(executor, cid, np) ==
  IF Truthy(cid)
  THEN LET v == ToolRedeem(pendingConfirmations, cid, now) IN
       IF v.out # "Ok"
       THEN Outcome(v.out, v.out, "", "none", NoParams, Undefined, v.store,
                    NoContinuation)
       ELSE CallExecutor(executor, cid, np, "Ok", v.store)
  ELSE CallExecutor(executor, cid, np, "none", pendingConfirmations)

\* the create_swap tool from its invocation to its first await or return
CreateSwapTool(from, to, amount, confirm, cid, r) ==
  LET np == NormalizeSwapParams(from, to, amount)
      confirmId == GenerateConfirmationId(now, r)
  IN
  IF ~Truthy(config.apiToken) THEN Reject("ApiTokenMissing")
  ELSE IF ToolNeedsConfirmation(confirm, cid)
  THEN Outcome("awaiting", "none", "", "estimateSwap", np, confirmId,
               IssueConfirmation(pendingConfirmations, confirmId,
                                 "create_swap", np, now),
               Continuation("estimateSwap", Undefined, NoParams, confirmId))
  ELSE ToolRedeemAndExecute("createSwap", cid, np)

\* the start_trade tool from its invocation to its first await or return
StartTradeTool(uuid, amount, confirm, cid) ==
  LET np == NormalizeTradeParams(uuid, amount) IN
  IF ~Truthy(config.apiToken) THEN Reject("ApiTokenMissing")
  ELSE IF ToolNeedsConfirmation(confirm, cid)
  THEN Outcome("awaiting", "none", "", "getOffer", np, Undefined,
               pendingConfirmations,
               Continuation("getOffer", Undefined, np, Undefined))
  ELSE ToolRedeemAndExecute("startTrade", cid, np)

CallCreateSwapTool ==
  \E p \in SwapRequests, confirm \in ConfirmRequests,
     cid \in ConfirmationIdRequests :
    \E r \in IF ToolNeedsConfirmation(confirm, cid) THEN SuffixChoices
              ELSE {1} :
      LET o == CreateSwapTool(p[1], p[2], p[3], confirm, cid, r) IN
      Apply(cid, o) /\ Schedule(o)

CallStartTradeTool ==
  \E p \in TradeRequests, confirm \in ConfirmRequests,
     cid \in ConfirmationIdRequests :
    LET o == StartTradeTool(p[1], p[2], confirm, cid) IN
    Apply(cid, o) /\ Schedule(o)

\* a suspended tool callback resumes
ToolResumes == HandlerResumes

\* time passes while the server runs
ServerTick == Tick

ServerNext ==
  \/ CallCreateSwapTool
  \/ CallStartTradeTool
  \/ ToolResumes
  \/ ServerTick

ServerSpec == Init /\ [][ServerNext]_vars

----------------------------------------------------------------------------
(* The claims range over every request of the input space, in every        *)
(* reachable state: P(action, executor, reaches, np, confirm, cid, o) is    *)
(* asked of the request's action tag, the executor of its handler, whether *)
(* the request gets past the credential check and the validation, its      *)
(* normalized parameters, its confirm flag, its confirmation_id and the    *)
(* outcome o of the handler's step.                                        *)

SwapReachesGate(p) ==
  /\ ApiTokenConfigured
  /\ SymbolPasses(p[1])
  /\ SymbolPasses(p[2])
  /\ AmountPasses(p[3])

TradeReachesGate(p) == ApiTokenConfigured /\ AmountPasses(p[2])

EveryRequest(P(_, _, _, _, _, _, _)) ==
  /\ \A p \in SwapInputs, c \in ConfirmInputs, i \in ConfirmationIdInputs :
      \A r \in IF NeedsConfirmation(c, i) THEN RandomSuffixes ELSE {1} :
       P("create_swap", "createSwap", SwapReachesGate(p),
         NormalizeSwapParams(p[1], p[2], p[3]), c, i,
         CreateSwapCall(p[1], p[2], p[3], c, i, r))
  /\ \A p \in TradeInputs, c \in ConfirmInputs, i \in ConfirmationIdInputs :
       P("start_trade", "startTrade", TradeReachesGate(p),
         NormalizeTradeParams(p[1], p[2]), c, i,
         StartTradeCall(p[1], p[2], c, i))

RedeemErrors == {"NotFound", "Expired", "WrongAction", "ParameterMismatch"}

\* the request is refused: an error-flagged response, no Trading Service
\* call, nothing left suspended
Refused(o) == o.isError /\ o.call = "none" /\ o.cont = NoContinuation

\* the record stored under cid is there and has not expired
Live(cid) ==
  /\ cid \in DOMAIN pendingConfirmations
  /\ pendingConfirmations[cid].expiresAt >= now

----------------------------------------------------------------------------
(* C1 *)

C1Holds(action, executor, reaches, np, confirm, cid, o) ==
  (reaches /\ confirm # "true" /\ "spent" \in Tags(cid)) =>
    (o.redeem = "NotFound" /\ Refused(o))

\* C1: with requireConfirmation = true and confirm not true, once a
\* redemption of id X has succeeded, every later request carrying
\* confirmation_id = X, with any parameters that pass the handler's
\* validation, gets NotFound and calls no executor, so X authorises at most
\* one executor call.
C1_SingleUse == config.requireConfirmation => EveryRequest(C1Holds)

----------------------------------------------------------------------------
(* C2 *)

\* the executor calls authorised by id that are awaiting their reply
InFlightFor(id) ==
  CopiesIn(Continuation("createSwap", id, NoParams, Undefined), inflight)
    + CopiesIn(Continuation("startTrade", id, NoParams, Undefined), inflight)

\* C2: of the handler invocations in flight at once that carry the same
\* confirmation_id, at most one found the record valid: no id has two
\* executor calls that it authorised in flight.
C2_NoDoubleRedemption ==
  \A id \in DOMAIN ledger : InFlightFor(id) <= 1

----------------------------------------------------------------------------
(* C3 *)

C3Holds(action, executor, reaches, np, confirm, cid, o) ==
  /\ o.call \in Executors =>
       (confirm = "true" \/ (Truthy(cid) /\ o.redeem = "Ok"))
  /\ o.redeem \in RedeemErrors => Refused(o)

\* C3: with requireConfirmation = true the executor is called only in a
\* request that passed confirm === true or whose confirmation_id was
\* redeemed with Ok in that same request; a redemption that returns an error
\* gives an error-flagged response and no executor call; and no executor
\* call is made when a suspended handler resumes.
C3_GateAuthorisation ==
  config.requireConfirmation =>
    /\ EveryRequest(C3Holds)
    /\ \A c \in BagToSet(inflight), settled \in Settlements,
          r \in RandomSuffixes :
         Resume(c, settled, r).call \notin Executors

\* a redemption has just been refused under requireConfirmation = true
C3_Witness ==
  /\ config.requireConfirmation
  /\ last.op = "redeem"
  /\ last.result \in RedeemErrors

----------------------------------------------------------------------------
(* C4 *)

C4Holds(action, executor, reaches, np, confirm, cid, o) ==
  o.redeem = "Ok" =>
    /\ cid \in DOMAIN pendingConfirmations
    /\ pendingConfirmations[cid].action = action
    /\ o.call = executor
    /\ o.args = pendingConfirmations[cid].params
    /\ DOMAIN o.args = DOMAIN pendingConfirmations[cid].params

\* C4: whenever the executor is called as the result of redeeming id X, the
\* handler is the one of the action stored in X's record, and the
\* parameters passed to the executor equal the record's params, key for key
\* and with the same key set.
C4_ExecutionMatchesBinding == EveryRequest(C4Holds)

\* a redemption has just succeeded and its executor call is in flight
C4_Witness ==
  /\ last.op = "redeem"
  /\ last.result = "Ok"
  /\ InFlightFor(last.id) >= 1

----------------------------------------------------------------------------
(* C5 *)

C5Holds(action, executor, reaches, np, confirm, cid, o) ==
  (/\ reaches
   /\ Truthy(cid)
   /\ Live(cid)
   /\ pendingConfirmations[cid].action = action
   /\ \E k \in DOMAIN np : pendingConfirmations[cid].params[k] # np[k])
  => (o.redeem = "ParameterMismatch" /\ Refused(o))

\* C5: a redemption request for the right action that passes the
\* credential check and the validation and presents a live, unexpired
\* record, and in which at least one normalized parameter differs from the
\* stored value, fails with ParameterMismatch and calls no executor.
C5_ParameterMismatch == EveryRequest(C5Holds)

\* a redemption has just failed with ParameterMismatch
C5_Witness == last.op = "redeem" /\ last.result = "ParameterMismatch"

----------------------------------------------------------------------------
(* C6 *)

ExecutorOf(action) ==
  IF action = "create_swap" THEN "createSwap" ELSE "startTrade"

\* redeeming cid now with the action and the parameters of its own record
\* succeeds and calls the executor with them
RetrySucceeds(cid, store) ==
  LET rec == store[cid]
      retry == RedeemAndExecute(rec.action, ExecutorOf(rec.action), cid,
                                rec.params)
  IN  /\ \A t \in {now, rec.expiresAt} :
           ValidateConfirmation(store, cid, rec.action, rec.params, t).out
             = "Ok"
      /\ retry.redeem = "Ok"
      /\ retry.call = ExecutorOf(rec.action)
      /\ retry.args = rec.params

C6Holds(action, executor, reaches, np, confirm, cid, o) ==
  o.redeem \in {"ParameterMismatch", "WrongAction"} =>
    /\ o.store = pendingConfirmations
    /\ cid \in DOMAIN o.store
    /\ RetrySucceeds(cid, o.store)

\* C6: a redemption of X that fails with ParameterMismatch or WrongAction
\* leaves the store, and so X's record, unchanged, and a redemption of X
\* with the record's own action and parameters then succeeds and executes,
\* now and at any time up to the record's expiresAt; as this holds in every
\* reachable state, it holds after any number of failed attempts.
C6_RecoverableFailuresKeepToken == EveryRequest(C6Holds)

\* a redemption of an id has just failed with a recoverable error and the
\* record is still in the store
C6_Witness ==
  /\ last.op = "redeem"
  /\ last.result \in {"ParameterMismatch", "WrongAction"}
  /\ last.id \in DOMAIN pendingConfirmations

----------------------------------------------------------------------------
(* C7 *)

C7Holds(action, executor, reaches, np, confirm, cid, o) ==
  (/\ Truthy(cid)
   /\ Live(cid)
   /\ pendingConfirmations[cid].action # action)
  => /\ o.isError
     /\ o.call = "none"
     /\ reaches => o.redeem = "WrongAction"

\* C7: a live, unexpired record issued by handleCreateSwap, presented to
\* handleStartTrade with any parameters and any confirm flag, gets an
\* error-flagged response and startTrade is not called; the error is
\* WrongAction whenever the parameters pass the handler's validation (which
\* comes first); and symmetrically for a record issued by handleStartTrade
\* presented to handleCreateSwap.
C7_ActionBinding == EveryRequest(C7Holds)

\* a redemption has just failed with WrongAction
C7_Witness == last.op = "redeem" /\ last.result = "WrongAction"

----------------------------------------------------------------------------
(* C8 *)

C8Holds(action, executor, reaches, np, confirm, cid, o) ==
  /\ (/\ reaches
      /\ Truthy(cid)
      /\ cid \in DOMAIN pendingConfirmations
      /\ pendingConfirmations[cid].expiresAt < now)
     => (/\ o.redeem = "Expired"
         /\ Refused(o)
         /\ cid \notin DOMAIN o.store)
  /\ (reaches /\ "expired" \in Tags(cid))
     => (o.redeem = "NotFound" /\ Refused(o))

\* C8: a redemption request that passes the credential check and the
\* validation, for a record whose expiresAt is in the past, fails with
\* Expired, calls no executor and removes the record; every further
\* redemption of that id returns NotFound.
C8_ExpiryOnRedemption == EveryRequest(C8Holds)

\* a redemption has just failed with Expired
C8_Witness == last.op = "redeem" /\ last.result = "Expired"

----------------------------------------------------------------------------
(* C9 *)

\* the result of a redemption, up to what an expired record reports before
\* and after it is removed
Verdict(out) == IF out = "Expired" THEN "NotFound" ELSE out

C9Holds(action, executor, reaches, np, confirm, cid, o) ==
  /\ o.redeem = "Ok" => pendingConfirmations[cid].expiresAt >= now
  /\ Verdict(ValidateConfirmation(pendingConfirmations, cid, action, np,
                                  now).out)
       = Verdict(ValidateConfirmation(
                   CleanupExpiredConfirmations(pendingConfirmations, now),
                   cid, action, np, now).out)

\* C9: no executor call is authorised by redeeming a record after its
\* expiresAt, whether or not a sweep timer is running; and whether a
\* redemption is authorised, and with which error it is refused, is the same
\* on the store as it is and on the store as a sweep at that instant would
\* leave it, except that an expired record is reported as Expired while it
\* is in the store and as NotFound once it is removed.
C9_ExpiredNeverValid == EveryRequest(C9Holds)

\* a record that expired was removed by the sweep, and a redemption of its
\* id has just been refused
C9_Witness ==
  /\ last.op = "redeem"
  /\ last.result = "NotFound"
  /\ "swept" \in Tags(last.id)

----------------------------------------------------------------------------
(* C10 *)

\* the store m with the one record rec added under id, all else as it was
AddsOneRecord(m, store, id, rec) ==
  /\ id \notin DOMAIN m
  /\ DOMAIN store = DOMAIN m \cup {id}
  /\ store[id] = rec
  /\ \A x \in DOMAIN m : store[x] = m[x]

C10Holds(action, executor, reaches, np, confirm, cid, o) ==
  (reaches /\ confirm # "true" /\ ~Truthy(cid)) =>
    /\ o.call \notin Executors
    /\ action = "create_swap" =>
         /\ o.id \notin DOMAIN ledger
         /\ AddsOneRecord(pendingConfirmations, o.store, o.id,
                          PendingConfirmation(action, np, now + TTL))
         /\ Resume(o.cont, Resolved, 1).out = "confirmation_required"
         /\ Resume(o.cont, Resolved, 1).id = o.id
         /\ Resume(o.cont, Resolved, 1).call \notin Executors
    /\ action = "start_trade" =>
         \A r \in RandomSuffixes :
           LET done == Resume(o.cont, Resolved, r) IN
           /\ done.out = "confirmation_required"
           /\ done.id \notin DOMAIN ledger
           /\ done.call \notin Executors
           /\ AddsOneRecord(pendingConfirmations, done.store, done.id,
                            PendingConfirmation(action, np, now + TTL))

\* C10: with requireConfirmation = true, a request that reaches the gate
\* with confirm not true and no confirmation_id, and whose preview call
\* succeeds, returns confirmation_required with a fresh confirmation_id;
\* exactly one record is added to the store, under that id, holding the
\* action tag and the normalized parameters; no executor is called.
C10_TokenIssuance == config.requireConfirmation => EveryRequest(C10Holds)

----------------------------------------------------------------------------
(* C11 *)

\* the store holds under id the record of action and np issued at time now
HoldsToken(store, id, action, np) ==
  /\ id \in DOMAIN store
  /\ store[id] = PendingConfirmation(action, np, now + TTL)

\* the confirmation_id values that count as none: absent and ""
NoConfirmationId == {Undefined, EmptyString}

\* C11: with requireConfirmation = true and no confirmation_id, a request
\* with confirm = false has the same outcome as the request with confirm
\* omitted, and when it passes the credential check and the validation it
\* calls no executor, stores a token for its action and normalized
\* parameters and, its preview call succeeding, returns
\* confirmation_required with that token's id.
C11_ExplicitFalseIsAbsent ==
  config.requireConfirmation =>
    /\ \A p \in SwapInputs, i \in NoConfirmationId, r \in RandomSuffixes :
         LET np == NormalizeSwapParams(p[1], p[2], p[3])
             f == CreateSwapCall(p[1], p[2], p[3], "false", i, r)
             done == Resume(f.cont, Resolved, r)
         IN  /\ f = CreateSwapCall(p[1], p[2], p[3], "undefined", i, r)
             /\ SwapReachesGate(p) =>
                  /\ f.call = "estimateSwap"
                  /\ HoldsToken(f.store, f.id, "create_swap", np)
                  /\ done.out = "confirmation_required"
                  /\ done.id = f.id
                  /\ done.call = "none"
    /\ \A p \in TradeInputs, i \in NoConfirmationId, r \in RandomSuffixes :
         LET np == NormalizeTradeParams(p[1], p[2])
             f == StartTradeCall(p[1], p[2], "false", i)
             done == Resume(f.cont, Resolved, r)
         IN  /\ f = StartTradeCall(p[1], p[2], "undefined", i)
             /\ TradeReachesGate(p) =>
                  /\ f.call = "getOffer"
                  /\ done.out = "confirmation_required"
                  /\ HoldsToken(done.store, done.id, "start_trade", np)
                  /\ done.call = "none"

\* under requireConfirmation = true a request without confirmation_id (the
\* runs send confirm = false as well as no confirm) has just stored a token
C11_Witness ==
  /\ config.requireConfirmation
  /\ last.op = "create"
  /\ last.id \in DOMAIN pendingConfirmations

----------------------------------------------------------------------------
(* C12 *)

\* what a handler returns when its executor call succeeds
Success(action) ==
  IF action = "create_swap" THEN "swap_created" ELSE "trade_started"

C12Holds(action, executor, reaches, np, confirm, cid, o) ==
  (/\ reaches
   /\ ~Truthy(cid)
   /\ (~config.requireConfirmation \/ confirm = "true"))
  => /\ o.call = executor
     /\ o.args = np
     /\ o.redeem = "none"
     /\ o.id = Undefined
     /\ o.store = pendingConfirmations
     /\ LET done == Resume(o.cont, Resolved, 1) IN
          /\ done.out = Success(action)
          /\ done.call = "none"
          /\ done.id = Undefined
          /\ done.store = pendingConfirmations

\* C12: a request that passes the credential check and the validation,
\* carries no confirmation_id, and has requireConfirmation = false or
\* confirm = true, calls its executor in that same request with the
\* normalized parameters and, the call succeeding, returns swap_created /
\* trade_started; the store is the same after the call and after the
\* response as before the request, and no id is created.
C12_DirectExecution == EveryRequest(C12Holds)

\* an executor call that no confirmation_id authorised is in flight
C12_Witness ==
  \/ Continuation("createSwap", Undefined, NoParams, Undefined)
       \in BagToSet(inflight)
  \/ Continuation("startTrade", Undefined, NoParams, Undefined)
       \in BagToSet(inflight)

----------------------------------------------------------------------------
(* C13 *)

C13Holds(action, executor, reaches, np, confirm, cid, o) ==
  (reaches /\ (~config.requireConfirmation \/ confirm = "true"))
  => /\ o.call = executor
     /\ o.redeem = "none"
     /\ o.store = pendingConfirmations

\* C13: a request that passes the credential check and the validation and
\* has requireConfirmation = false or confirm = true goes on to its executor
\* whatever confirmation_id it carries; validateConfirmation is not called
\* and the store is not modified.
C13_DecisionTableOrder == EveryRequest(C13Holds)

----------------------------------------------------------------------------
(* C14 *)

\* the record an id stands for binds the call that redeems it
BindsCall(action, np, cid, o) ==
  o.redeem = "Ok" =>
    /\ pendingConfirmations[cid].action = action
    /\ pendingConfirmations[cid].params = np
    /\ o.args = pendingConfirmations[cid].params

\* C14: for the create_swap and start_trade tools that createServer
\* registers, whenever a request executes on the strength of a
\* confirmation id, the id was issued for that tool's action and the
\* parameters executed equal the parameters it was issued with.
C14_RegisteredToolsHonourBinding ==
  /\ \A p \in SwapInputs, c \in ConfirmInputs, i \in ConfirmationIdInputs :
       BindsCall("create_swap", NormalizeSwapParams(p[1], p[2], p[3]), i,
                 CreateSwapTool(p[1], p[2], p[3], c, i, 1))
  /\ \A p \in TradeInputs, c \in ConfirmInputs, i \in ConfirmationIdInputs :
       BindsCall("start_trade", NormalizeTradeParams(p[1], p[2]), i,
                 StartTradeTool(p[1], p[2], c, i))

----------------------------------------------------------------------------
(* C15 *)

\* the request is turned away with a validation error: error-flagged, no
\* Trading Service call (preview or executor), nothing suspended,
\* validateConfirmation not called, the store as it was
TurnedAway(o, errors) ==
  /\ o.out \in errors
  /\ Refused(o)
  /\ o.redeem = "none"
  /\ o.id = Undefined
  /\ o.store = pendingConfirmations

\* C15: when the API token is configured, a request to handleCreateSwap
\* with a currency symbol or an amount that validateCurrencySymbol /
\* validateAmount rejects, or to handleStartTrade with an amount that
\* validateAmount rejects, gets an error-flagged validation error whatever
\* its confirm flag and confirmation_id (a live one included); no record is
\* created or consumed and no Trading Service call is made.
C15_ValidationPrecedesGate ==
  Truthy(config.apiToken) =>
    /\ \A p \in SwapInputs, c \in ConfirmInputs, i \in ConfirmationIdInputs,
          r \in RandomSuffixes :
         (\/ p[1] \notin ValidSymbols
          \/ p[2] \notin ValidSymbols
          \/ p[3] \notin ValidAmounts)
         => TurnedAway(CreateSwapCall(p[1], p[2], p[3], c, i, r),
                       {"InvalidSymbol", "InvalidAmount"})
    /\ \A p \in TradeInputs, c \in ConfirmInputs, i \in ConfirmationIdInputs :
         p[2] \notin ValidAmounts
         => TurnedAway(StartTradeCall(p[1], p[2], c, i), {"InvalidAmount"})

\* a request has just been turned away by the validation while the store
\* holds a record
C15_Witness ==
  /\ last.op = "none"
  /\ last.result \in {"InvalidSymbol", "InvalidAmount"}
  /\ DOMAIN pendingConfirmations # {}

----------------------------------------------------------------------------
(* C16 *)

C16Holds(action, executor, reaches, np, confirm, cid, o) ==
  TurnedAway(o, {"ApiTokenMissing"})

\* C16: when config.apiToken is empty, every request to handleCreateSwap
\* and handleStartTrade, with valid or malformed parameters, any confirm
\* flag and any confirmation_id (a live one included), gets the 'API token
\* not configured' error; the store is unchanged and no Trading Service
\* call is made.
C16_MissingCredentialFirst ==
  ~Truthy(config.apiToken) => EveryRequest(C16Holds)

\* a request has just been turned away for the missing credential while
\* the store holds a record
C16_Witness ==
  /\ last.op = "none"
  /\ last.result = "ApiTokenMissing"
  /\ DOMAIN pendingConfirmations # {}

----------------------------------------------------------------------------
(* C17 *)

\* what a handler's promise can resolve to
ToolResponses ==
  ErrorOuts \cup {"confirmation_required", "swap_created", "trade_started"}

EndsWith(text, message) ==
  /\ Len(text) >= Len(message)
  /\ SubSeq(text, Len(text) - Len(message) + 1, Len(text)) = message

\* up to its first await a handler returns a ToolResponse or suspends
C17Holds(action, executor, reaches, np, confirm, cid, o) ==
  o.out \in ToolResponses \cup {"awaiting"}

\* C17: no exception escapes a handler.  For every request, the handler
\* returns a ToolResponse or suspends at a Trading Service call; however the
\* awaited call settles (it resolves, rejects with an Error, rejects with a
\* value that is not an Error), the resumed handler returns a ToolResponse;
\* after a rejection the response is error-flagged and its text ends with
\* the message of the Error, or with the rejected string.
C17_NoExceptionEscapes ==
  /\ EveryRequest(C17Holds)
  /\ \A c \in BagToSet(inflight), settled \in Settlements,
        r \in RandomSuffixes :
       LET o == Resume(c, settled, r) IN
       /\ o.out \in ToolResponses
       /\ o.cont = NoContinuation
       /\ ~settled.ok =>
            /\ o.isError
            /\ o.call = "none"
            /\ settled.kind = "Error" => EndsWith(o.text, settled.message)
            /\ settled.kind = "string" => EndsWith(o.text, settled.value)

\* the awaited call of a handler has just been rejected, while another
\* handler is still suspended
C17_Witness ==
  /\ last.result = "UpstreamFailure"
  /\ inflight # EmptyBag

----------------------------------------------------------------------------
(* C18 *)

\* the executor call that cid had authorised has just failed
FailedUnder(cid) ==
  last.result = "UpstreamFailure" /\ last.id = cid /\ Truthy(cid)

\* a step calls an executor at most once, with the normalized parameters;
\* the request that repeats a failed one with the same confirmation_id is
\* told the id is not there
C18Holds(action, executor, reaches, np, confirm, cid, o) ==
  /\ o.call \in Executors =>
       o.call = executor /\ o.args = np /\ o.cont.at = executor
  /\ (reaches /\ FailedUnder(cid)) =>
       o.out = "NotFound" /\ Refused(o)

\* C18: on an authorised path the handler calls its executor once and never
\* again: the handler resumed after the executor call makes no Trading
\* Service call, however the call settled, and leaves the store as it is; a
\* rejected call ends in an error-flagged response.  When the call had been
\* authorised by a confirmation_id, the record is gone, so the same request
\* with the same id is answered NotFound.
C18_ExecutorOnceTokenSpent ==
  /\ EveryRequest(C18Holds)
  /\ \A c \in BagToSet(inflight), settled \in Settlements :
       c.at \in Executors =>
         LET o == Resume(c, settled, 1) IN
         /\ o.call = "none"
         /\ o.cont = NoContinuation
         /\ o.store = pendingConfirmations
         /\ ~settled.ok => o.isError

----------------------------------------------------------------------------
(* C19 *)

\* the instants at which a sweep is looked at: the current one, and for each
\* record the instant it expires, the one before and the one after
SweepTimes ==
  {now} \cup
  {pendingConfirmations[x].expiresAt + d :
     x \in DOMAIN pendingConfirmations, d \in {-1, 0, 1}}

\* a redemption of the record under id at time t reports Expired, whichever
\* handler presents it
ReportsExpired(id, t) ==
  \A action \in {"create_swap", "start_trade"} :
    ValidateConfirmation(pendingConfirmations, id, action,
                         pendingConfirmations[id].params, t).out = "Expired"

\* C19: one run of cleanupExpiredConfirmations at time t removes the records
\* with expiresAt < t and no other; the records it keeps have the id, action,
\* params and expiresAt they had; the removed records are exactly those for
\* which a redemption at time t reports Expired.
C19_SweepPrecision ==
  \A t \in SweepTimes :
    LET after == CleanupExpiredConfirmations(pendingConfirmations, t)
        removed == DOMAIN pendingConfirmations \ DOMAIN after
    IN  /\ DOMAIN after \subseteq DOMAIN pendingConfirmations
        /\ removed = {x \in DOMAIN pendingConfirmations :
                        pendingConfirmations[x].expiresAt < t}
        /\ \A x \in DOMAIN after : after[x] = pendingConfirmations[x]
        /\ removed = {x \in DOMAIN pendingConfirmations : ReportsExpired(x, t)}
        /\ \A x \in DOMAIN after :
             ValidateConfirmation(pendingConfirmations, x,
                                  pendingConfirmations[x].action,
                                  pendingConfirmations[x].params, t).out
               # "Expired"

\* a sweep has removed an expired record and kept a record that has not
\* expired
C19_Witness ==
  /\ \E x \in DOMAIN ledger :
       "swept" \in Tags(x) /\ x \notin DOMAIN pendingConfirmations
  /\ \E y \in DOMAIN pendingConfirmations : Live(y)
  /\ last = NoEvent
  /\ timers # {}

----------------------------------------------------------------------------
(* C20 *)

\* the instants the clock shows under LiveSpec, and the ids generated at
\* them
LiveTimes == {k * (TTL + 1) : k \in 0..MaxIssued}

LiveIds ==
  {GenerateConfirmationId(t, r) : t \in LiveTimes, r \in RandomSuffixes}

\* C20: once startConfirmationCleanup has been called, with the clock going
\* on and the sweep timer firing, every record in the store is eventually
\* absent from it, whether or not a caller ever presents its id.
C20_BoundedStore ==
  \A id \in LiveIds :
    (cleanupInterval # 0 /\ id \in DOMAIN pendingConfirmations)
      ~> (id \notin DOMAIN pendingConfirmations)

\* under a running timer, a record that no caller presented has been swept
\* and the store is empty
C20_Witness ==
  /\ cleanupInterval # 0
  /\ \E x \in DOMAIN ledger : Tags(x) = {"swept"}
  /\ DOMAIN pendingConfirmations = {}

----------------------------------------------------------------------------
(* C21 *)

\* the step with outcome o stored a record under o.id that expires 300000 ms
\* after now
CreatedForFiveMinutes(o) ==
  /\ o.id \in DOMAIN o.store
  /\ o.store[o.id].expiresAt = now + 300000

C21Holds(action, executor, reaches, np, confirm, cid, o) ==
  /\ Issues(o) => CreatedForFiveMinutes(o)
  /\ (reaches /\ NeedsConfirmation(confirm, cid)) =>
       IF action = "create_swap" THEN CreatedForFiveMinutes(o)
       ELSE \A r \in RandomSuffixes :
              CreatedForFiveMinutes(Resume(o.cont, Resolved, r))

\* the instants around the expiry of every stored record, and the current
\* one
ExpiryTimes ==
  {now} \cup
  {pendingConfirmations[x].expiresAt + d :
     x \in DOMAIN pendingConfirmations, d \in {-1, 0, 1, 2}}

\* C21: every record handleCreateSwap or handleStartTrade creates has
\* expiresAt = creation time + 300000 ms; a redemption of a stored record with
\* its action and its parameters succeeds at any time t <= expiresAt and
\* fails with Expired at any time t > expiresAt.
C21_FixedLifetime ==
  /\ EveryRequest(C21Holds)
  /\ \A c \in BagToSet(inflight), settled \in Settlements,
        r \in RandomSuffixes :
       Issues(Resume(c, settled, r)) =>
         CreatedForFiveMinutes(Resume(c, settled, r))
  /\ \A x \in DOMAIN pendingConfirmations, t \in ExpiryTimes :
       LET rec == pendingConfirmations[x]
           v == ValidateConfirmation(pendingConfirmations, x, rec.action,
                                     rec.params, t)
       IN  /\ t <= rec.expiresAt => v.out = "Ok"
           /\ t > rec.expiresAt => v.out = "Expired"

\* a record created at time 0 has just been redeemed at the last instant of
\* its lifetime, 300000 ms later
C21_Witness ==
  /\ now = 300000
  /\ last.op = "redeem"
  /\ last.result = "Ok"
  /\ last.id \in {GenerateConfirmationId(0, r) : r \in RandomSuffixes}
  /\ "reused" \notin Tags(last.id)

----------------------------------------------------------------------------
(* C22 *)

\* the id a step stores a record under is in use neither now nor earlier
FreshId(o) ==
  /\ o.id \notin DOMAIN pendingConfirmations
  /\ o.id \notin DOMAIN ledger

C22Holds(action, executor, reaches, np, confirm, cid, o) ==
  (reaches /\ NeedsConfirmation(confirm, cid)) =>
    IF action = "create_swap" THEN FreshId(o)
    ELSE \A r \in RandomSuffixes : FreshId(Resume(o.cont, Resolved, r))

\* C22: the id generateConfirmationId produces for an issuance, several in
\* the same millisecond included, differs from every id in the store and
\* from every id issued earlier: pendingConfirmations.set never overwrites a
\* record and no id has been issued twice.
C22_IdUniqueness ==
  /\ EveryRequest(C22Holds)
  /\ \A id \in DOMAIN ledger : "reused" \notin Tags(id)

----------------------------------------------------------------------------
(* C23 *)

\* how the records counted under id ended
Endings(l, id) == l[id] \cap {"spent", "expired", "swept"}

\* C23: no step changes the action, params or expiresAt of a record that is
\* in the store before and after it (a handler step, a failed redemption
\* with WrongAction or ParameterMismatch included, a resumed handler, a
\* sweep); and each record is created once and deleted at most once: no id
\* has been issued a second time, and none has ended twice.
C23_RecordsImmutable ==
  [][/\ \A x \in DOMAIN pendingConfirmations
                   \cap DOMAIN pendingConfirmations' :
          pendingConfirmations'[x] = pendingConfirmations[x]
     /\ \A id \in DOMAIN ledger' :
          /\ "reused" \notin ledger'[id]
          /\ Cardinality(Endings(ledger', id)) <= 1]_vars

----------------------------------------------------------------------------
(* C24 *)

StartsWith(text, prefix) ==
  Len(text) >= Len(prefix) /\ SubSeq(text, 1, Len(prefix)) = prefix

\* one or more digits, optionally followed by a single decimal point and one
\* or more digits
DecimalShape(s) ==
  \E n \in 1..Len(s) :
    /\ \A i \in 1..n : s[i] \in Digits
    /\ \/ n = Len(s)
       \/ /\ n + 2 <= Len(s)
          /\ s[n + 1] = "."
          /\ \A i \in (n + 2)..Len(s) : s[i] \in Digits

\* a string is rejected with an 'Invalid amount' error
RejectedAsInvalidAmount(result) ==
  result # Null /\ StartsWith(result, InvalidAmountPrefix)

\* C24: validateAmount accepts a string exactly when, after trimming, it
\* consists of one or more digits optionally followed by a single decimal
\* point and one or more digits and its numeric value is strictly greater
\* than zero; every other string is rejected with an 'Invalid amount' error.
C24_AmountValidation ==
  last.op = "validateAmount" =>
    /\ last.result = Null <=>
         /\ DecimalShape(Trim(last.id))
         /\ ParseFloat(Trim(last.id)) # "zero"
    /\ last.result # Null => RejectedAsInvalidAmount(last.result)

\* C24, amended: validateAmount accepts a string exactly when, after
\* trimming, it has the decimal shape and the double parseFloat makes of it
\* is strictly greater than zero and finite; every other string is rejected
\* with an 'Invalid amount' error that quotes the input.  For short strings
\* the double is zero exactly when no digit is other than 0.
C24_AmountValidationFinite ==
  last.op = "validateAmount" =>
    /\ last.result = Null <=>
         /\ DecimalShape(Trim(last.id))
         /\ ParseFloat(Trim(last.id)) = "positive"
    /\ last.result # Null =>
         /\ RejectedAsInvalidAmount(last.result)
         /\ StartsWith(last.result, InvalidAmountPrefix \o last.id)
    /\ (Len(last.id) <= MaxAmountLen + 2 /\ DecimalShape(Trim(last.id))) =>
         (last.result = Null
            <=> \E i \in DOMAIN last.id : last.id[i] \in Digits \ {"0"})
    /\ (\E i \in DOMAIN last.id : last.id[i] = "-") => last.result # Null

\* a well-formed digit string too large for a double has just been
\* rejected
C24_Witness ==
  /\ last.op = "validateAmount"
  /\ last.id = Repeat("9", 310)
  /\ last.result = InvalidAmount(last.id, NumberIsNotFinite)

----------------------------------------------------------------------------
(* C25 *)

Alphanumeric == Range(LowerLetters) \cup Range(UpperLetters) \cup Digits

\* C25: validateCurrencySymbol accepts an input exactly when its upper-cased,
\* trimmed form has 2 to 10 characters, all of them letters or digits, which
\* is when the input without the white space around it has 2 to 10
\* characters, all of them letters of either case or digits; any other input
\* is rejected with an 'Invalid currency symbol' error that quotes the input
\* as it was given.
C25_CurrencySymbolValidation ==
  last.op = "validateCurrencySymbol" =>
    LET form == Trim(ToUpperCase(last.id))
        core == Trim(last.id)
    IN  /\ last.result = Null <=>
             /\ Len(form) \in 2..10
             /\ \A i \in DOMAIN form : form[i] \in Range(UpperLetters) \cup Digits
        /\ last.result = Null <=>
             /\ Len(core) \in 2..10
             /\ \A i \in DOMAIN core : core[i] \in Alphanumeric
        /\ last.result # Null =>
             StartsWith(last.result, InvalidSymbolPrefix \o last.id)

\* a symbol of eleven letters has just been rejected
C25_Witness ==
  /\ last.op = "validateCurrencySymbol"
  /\ last.id = Repeat("a", 11)
  /\ last.result = InvalidCurrencySymbol(last.id)

----------------------------------------------------------------------------
(* C26 *)

\* a number below zero, and one that is zero or above
Negative(x) == x \in {Num("finite", -100), Num("finite", -1), Num("-Infinity", 0)}
NonNegative(x) ==
  x \in {Num("finite", 0), Num("finite", 1), Num("finite", 100),
         Num("-0", 0), Num("Infinity", 0)}

\* the currency symbol, when one is given, passes validateCurrencySymbol
SymbolAcceptable(symbol) == Truthy(symbol) => CurrencySymbolValid(symbol)

\* C26: whenever min_amount or max_amount is supplied and negative,
\* handleSearchOffers returns an error-flagged response and does not call
\* client.searchOffers; the error is 'min_amount must be non-negative' when
\* min_amount is negative and 'max_amount must be non-negative' otherwise,
\* the currency symbols passing their own check, which comes first.  When
\* both are absent or non-negative, and the currency symbols pass, the search
\* call is made.
C26_RangeValidation ==
  last.op = "handleSearchOffers" =>
    LET coin == last.id[1]
        fiat == last.id[2]
        min == last.id[3]
        max == last.id[4]
        symbolsPass == SymbolAcceptable(coin) /\ SymbolAcceptable(fiat)
    IN  /\ (Negative(min) \/ Negative(max)) =>
             /\ last.result.isError
             /\ last.result.call = "none"
             /\ symbolsPass =>
                  /\ last.result.out = "InvalidRange"
                  /\ last.result.text =
                       IF Negative(min) THEN MinAmountMustBeNonNegative
                       ELSE MaxAmountMustBeNonNegative
        /\ (/\ symbolsPass
            /\ min = NoNumber \/ NonNegative(min)
            /\ max = NoNumber \/ NonNegative(max)) =>
             last.result.call = "searchOffers"

\* a search with a negative max_amount alone has just been turned away
C26_Witness ==
  /\ last.op = "handleSearchOffers"
  /\ last.id = <<Undefined, Undefined, NoNumber, Num("finite", -100)>>
  /\ last.result.out = "InvalidRange"
  /\ last.result.text = MaxAmountMustBeNonNegative

----------------------------------------------------------------------------
(* C27 *)

\* C27: loadConfig returns requireConfirmation = false exactly when the
\* environment variable LCS_REQUIRE_CONFIRMATION is the string 'false'; for
\* every other value, unset, empty, 'true', 'yes' and '1' included, it
\* returns requireConfirmation = true.
C27_ConfirmationOnByDefault ==
  last.op = "loadConfig" =>
    LET value == last.id.LCS_REQUIRE_CONFIRMATION IN
    /\ last.result.requireConfirmation \in BOOLEAN
    /\ last.result.requireConfirmation = FALSE
         <=> value = <<"f", "a", "l", "s", "e">>
    /\ value \in {Undefined, EmptyString, <<"t", "r", "u", "e">>,
                  <<"y", "e", "s">>, <<"1">>}
         => last.result.requireConfirmation = TRUE

\* loadConfig has just run with LCS_REQUIRE_CONFIRMATION unset and returned
\* a configuration that requires confirmation
C27_Witness ==
  /\ last.op = "loadConfig"
  /\ last.id.LCS_REQUIRE_CONFIRMATION = Undefined
  /\ last.result.requireConfirmation = TRUE

----------------------------------------------------------------------------
(* C28 *)

\* the parameters a redemption may come with: those of the record, and
\* normalized parameters of both handlers
ParamCandidates(rec) ==
  { rec.params,
    NormalizeSwapParams(ETH, USDT, One), NormalizeSwapParams(BTC, USDT, One),
    NormalizeSwapParams(BTC, ETH, <<"2">>),
    NormalizeTradeParams(<<"u", "1">>, One),
    NormalizeTradeParams(<<"u", "2">>, <<"2">>) }

Differs(rec, np) == \E k \in DOMAIN np : k \notin DOMAIN rec.params
                                         \/ rec.params[k] # np[k]

\* C28: validateConfirmation checks existence, then expiry, then the action,
\* then the parameters, and returns the first failure: an id that is not in
\* the store is NotFound whatever else is presented; an expired record is
\* reported Expired and deleted even with the wrong action or altered
\* parameters; a live record with the wrong action is WrongAction even when
\* the parameters differ too; a live record with its action and differing
\* parameters is ParameterMismatch.
C28_OrderOfRedemptionChecks ==
  /\ \A action \in {"create_swap", "start_trade"},
        np \in ParamCandidates([params |-> NoParams]) :
       ValidateConfirmation(pendingConfirmations, BogusId, action, np,
                            now).out = "NotFound"
  /\ \A x \in DOMAIN pendingConfirmations :
       LET rec == pendingConfirmations[x] IN
       \A t \in {now, rec.expiresAt, rec.expiresAt + 1},
          action \in {"create_swap", "start_trade"},
          np \in ParamCandidates(rec) :
         LET v == ValidateConfirmation(pendingConfirmations, x, action, np, t)
         IN  /\ t > rec.expiresAt =>
                  /\ v.out = "Expired"
                  /\ v.store = MapDelete(pendingConfirmations, x)
             /\ (t <= rec.expiresAt /\ action # rec.action) =>
                  v.out = "WrongAction"
             /\ (t <= rec.expiresAt /\ action = rec.action
                   /\ Differs(rec, np)) =>
                  v.out = "ParameterMismatch"

\* an expired record has just been reported Expired and deleted while the
\* store holds a live record of the other action
C28_Witness ==
  /\ last.op = "redeem"
  /\ last.result = "Expired"
  /\ last.id \notin DOMAIN pendingConfirmations
  /\ \E y \in DOMAIN pendingConfirmations :
       Live(y) /\ pendingConfirmations[y].action = "start_trade"

----------------------------------------------------------------------------
(* C29 *)

\* requests that differ from the stored ones in one, two or all of their
\* parameters
SwapVariants ==
  {NormalizeSwapParams(f, t, a) :
     f \in {ETH, BTC}, t \in {USDT, BTC}, a \in {One, <<"2">>}}
TradeVariants ==
  {NormalizeTradeParams(u, a) :
     u \in {<<"u", "1">>, <<"u", "2">>}, a \in {One, <<"2">>}}

\* the key ParameterMismatch has to name: the first in the order of the
\* request's keys at which the record holds another value
NamedKey(order, rec, np) ==
  IF rec.params[order[1]] # np[order[1]] THEN order[1]
  ELSE IF rec.params[order[2]] # np[order[2]] THEN order[2]
  ELSE order[3]

\* C29: when a live record is presented with its action and parameters that
\* differ from the bound ones in one or several keys, the ParameterMismatch
\* error names the first differing key in the order from_currency,
\* to_currency, from_amount for create_swap and offer_uuid, amount for
\* start_trade.
C29_FirstDifferingKey ==
  \A x \in DOMAIN pendingConfirmations :
    LET rec == pendingConfirmations[x] IN
    Live(x) =>
      \A np \in (IF rec.action = "create_swap" THEN SwapVariants
                 ELSE TradeVariants) \ {rec.params} :
        LET v == ValidateConfirmation(pendingConfirmations, x, rec.action,
                                      np, now)
        IN  /\ v.out = "ParameterMismatch"
            /\ v.key =
                 IF rec.action = "create_swap"
                 THEN NamedKey(<<"from_currency", "to_currency",
                                 "from_amount">>, rec, np)
                 ELSE NamedKey(<<"offer_uuid", "amount", "amount">>, rec, np)

\* a redemption has just been refused with ParameterMismatch and the record
\* is still in the store
C29_Witness ==
  /\ last.op = "redeem"
  /\ last.result = "ParameterMismatch"
  /\ Live(last.id)
  /\ pendingConfirmations[last.id].action = "create_swap"

----------------------------------------------------------------------------
(* C30 *)

\* the stores before and after hold the same records under the ids other
\* than id
SameButFor(id, before, after) ==
  /\ DOMAIN after \ {id} = DOMAIN before \ {id}
  /\ \A x \in DOMAIN before \ {id} : after[x] = before[x]

C30Holds(action, executor, reaches, np, confirm, cid, o) ==
  /\ Truthy(cid) => SameButFor(cid, pendingConfirmations, o.store)
  /\ o.redeem # "none" => Truthy(cid)
  /\ o.redeem \in {"NotFound", "WrongAction", "ParameterMismatch"} =>
       o.store = pendingConfirmations

\* C30: a redemption request for id X adds, removes and alters no record
\* whose id is not X, up to its response; a redemption that fails with
\* NotFound, WrongAction or ParameterMismatch leaves the whole store as it
\* was.
C30_FrameOfRedemption ==
  /\ EveryRequest(C30Holds)
  /\ \A c \in BagToSet(inflight), settled \in Settlements :
       c.at \in Executors =>
         Resume(c, settled, 1).store = pendingConfirmations
  /\ \A x \in DOMAIN pendingConfirmations \cup {BogusId},
        action \in {"create_swap", "start_trade"},
        np \in ParamCandidates([params |-> NoParams]) \ {NoParams},
        t \in {now, now + TTL + 1} :
       LET v == ValidateConfirmation(pendingConfirmations, x, action, np, t)
       IN  /\ SameButFor(x, pendingConfirmations, v.store)
           /\ v.out \in {"NotFound", "WrongAction", "ParameterMismatch"} =>
                v.store = pendingConfirmations

\* a record has just been redeemed and the other record is still in the
\* store
C30_Witness ==
  /\ last.op = "redeem"
  /\ last.result = "Ok"
  /\ last.id \notin DOMAIN pendingConfirmations
  /\ DOMAIN pendingConfirmations # {}

----------------------------------------------------------------------------
(* C31 *)

\* the records a step takes out of the store
Removed == DOMAIN pendingConfirmations \ DOMAIN pendingConfirmations'

\* the step is a redemption of the record under x with the given result
Redeems(x, results) ==
  last'.op = "redeem" /\ last'.id = x /\ last'.result \in results

\* C31: the cleanup callback and validateConfirmation are both synchronous,
\* so a sweep runs between handler steps and never inside a redemption.  A
\* redemption that passes its checks takes the record out of the store in
\* the same step, and the record it accepts is one a sweep at that instant
\* would keep; a record that leaves the store by any other step leaves it
\* by a sweep, is expired, and its redemption would have reported Expired;
\* no step both sweeps and redeems; a record that is in the store under an
\* id that was redeemed is a later record issued under that id, not the
\* redeemed one.
C31_SweepAgainstRedemption ==
  /\ [](\A x \in DOMAIN pendingConfirmations :
          "spent" \in Tags(x) => "reused" \in Tags(x))
  /\ [][/\ \A x \in Removed :
            IF Redeems(x, {"Ok", "Expired"})
            THEN /\ Removed = {x}
                 /\ ledger'[x] \ ledger[x] \subseteq {"spent", "expired"}
            ELSE /\ last' = NoEvent
                 /\ "swept" \in ledger'[x]
                 /\ SweepSelects(pendingConfirmations[x], now)
                 /\ ReportsExpired(x, now)
                 /\ pendingConfirmations' =
                      CleanupExpiredConfirmations(pendingConfirmations, now)
        /\ \A x \in DOMAIN pendingConfirmations :
            Redeems(x, {"Ok"}) =>
              /\ x \notin DOMAIN pendingConfirmations'
              /\ ~SweepSelects(pendingConfirmations[x], now)
              /\ x \in DOMAIN CleanupExpiredConfirmations(
                                 pendingConfirmations, now)
              /\ "spent" \in ledger'[x]
        /\ last'.op = "redeem" /\ last'.result = "Ok" =>
            last'.id \in DOMAIN pendingConfirmations]_vars

\* a sweep has just removed an expired record while a handler whose
\* redemption succeeded is suspended at its executor call
C31_Witness ==
  /\ last = NoEvent
  /\ timers # {}
  /\ \E x \in DOMAIN ledger :
       "swept" \in Tags(x) /\ x \notin DOMAIN pendingConfirmations
  /\ \E c \in BagToSet(inflight) :
       c.at \in Executors /\ Truthy(c.cid) /\ "spent" \in Tags(c.cid)
       /\ "swept" \notin Tags(c.cid)
----------------------------------------------------------------------------
(* C32 *)

\* b is another spelling of the amount a
RespelledAmount(a, b) == AmountPasses(b) /\ SameNumber(a, b) /\ a # b

\* the step refuses with ParameterMismatch and leaves the store alone
MismatchRefused(o) ==
  /\ o.redeem = "ParameterMismatch"
  /\ o.out = "ParameterMismatch"
  /\ Refused(o)
  /\ o.store = pendingConfirmations

\* C32: a request that presents a live record with its action and an amount
\* that is numerically equal to the bound amount but spelled differently
\* ('1.0' bound and '1.00', '1', '01.0' or '1.0 ' presented) is refused
\* with ParameterMismatch, keeps the record and calls no Trading Service
\* operation, whatever confirm says; when the other parameters are the
\* bound ones the error names the amount.  The bound spelling itself
\* redeems.
C32_AmountsBoundAsText ==
  \A x \in DOMAIN pendingConfirmations, confirm \in ConfirmInputs :
    LET rec == pendingConfirmations[x] IN
    Live(x) =>
      IF rec.action = "create_swap"
      THEN \A f \in FromSpellings, t \in ToSpellings, a \in AmountSpellings :
             LET o == CreateSwapCall(f, t, a, confirm, x, 1)
                 same == /\ Upper(f) = rec.params.from_currency
                         /\ Upper(t) = rec.params.to_currency
             IN  /\ RespelledAmount(rec.params.from_amount, a) =>
                      /\ MismatchRefused(o)
                      /\ same => o.key = "from_amount"
                 /\ (same /\ a = rec.params.from_amount) =>
                      (o.redeem = "Ok" /\ o.call = "createSwap")
      ELSE \A a \in AmountSpellings :
             LET o == StartTradeCall(rec.params.offer_uuid, a, confirm, x)
             IN  /\ RespelledAmount(rec.params.amount, a) =>
                      (MismatchRefused(o) /\ o.key = "amount")
                 /\ a = rec.params.amount =>
                      (o.redeem = "Ok" /\ o.call = "startTrade")

\* a request has just presented a confirmation bound to '1.0' with the
\* amount '1.00' or '1' and the bound symbols, and was refused on the amount
C32_Witness ==
  /\ last.op = "handleCreateSwap"
  /\ last.result.redeem = "ParameterMismatch"
  /\ last.result.key = "from_amount"
  /\ last.result.call = "none"
  /\ Live(last.id[4])
  /\ pendingConfirmations[last.id[4]].params.from_amount = One
  /\ RespelledAmount(One, last.id[3])
----------------------------------------------------------------------------
(* C33 *)

\* two strings that differ at most in the case of their letters
SameButForCase(a, b) ==
  /\ Len(a) = Len(b)
  /\ \A i \in DOMAIN a : UpperChar(a[i]) = UpperChar(b[i])

\* C33: when handleCreateSwap issues a confirmation for from_currency,
\* to_currency and from_amount, a request that gives the two symbols in
\* any other letter case and the same amount string passes
\* validateConfirmation against the record just stored; and every live
\* create_swap record in the store is redeemed by every request whose
\* symbols are the bound ones up to letter case and whose amount is the
\* bound string: the handler goes on to client.createSwap with the bound
\* (upper-cased) parameters.
C33_CurrencyCaseDoesNotMatter ==
  /\ \A f \in FromSpellings, t \in ToSpellings, a \in {One, <<"1">>} :
       LET o == CreateSwapCall(f, t, a, "undefined", Undefined, 1) IN
       \A g \in {x \in FromSpellings : SameButForCase(f, x)},
          u \in {x \in ToSpellings : SameButForCase(t, x)} :
         ValidateConfirmation(o.store, o.id, "create_swap",
                              NormalizeSwapParams(g, u, a), now).out = "Ok"
  /\ \A x \in DOMAIN pendingConfirmations, confirm \in ConfirmInputs :
       LET rec == pendingConfirmations[x] IN
       (Live(x) /\ rec.action = "create_swap") =>
         \A g \in FromSpellings, u \in ToSpellings :
           (/\ SameButForCase(g, rec.params.from_currency)
            /\ SameButForCase(u, rec.params.to_currency)) =>
             LET o == CreateSwapCall(g, u, rec.params.from_amount, confirm,
                                     x, 1)
             IN  /\ o.redeem = "Ok"
                 /\ o.call = "createSwap"
                 /\ o.args = rec.params
                 /\ x \notin DOMAIN o.store

\* a request that gave the symbols in lower case has just redeemed a
\* confirmation and called client.createSwap with the upper-cased symbols
C33_Witness ==
  /\ last.op = "handleCreateSwap"
  /\ last.result.redeem = "Ok"
  /\ last.result.call = "createSwap"
  /\ last.id[1] = <<"e", "t", "h">>
  /\ last.id[2] = <<"u", "s", "d", "t">>
  /\ last.result.args.from_currency = ETH
  /\ last.result.args.to_currency = USDT
  /\ "spent" \in Tags(last.id[4])
----------------------------------------------------------------------------
(* C34 *)

\* the symbol rule itself: 2 to 10 upper-case letters or digits, nothing
\* around them
Canonical(symbol) ==
  /\ Len(symbol) \in 2..10
  /\ \A i \in DOMAIN symbol : symbol[i] \in Range(UpperLetters) \cup Digits

\* C34: the from_currency and to_currency of every create_swap record in
\* the store, and those handed to client.estimateSwap or client.createSwap
\* by the latest step of handleCreateSwap, satisfy the symbol rule.  (The
\* handler gets past validateCurrencySymbol only with symbols that pass
\* it.)
C34_BoundSymbolsCanonical ==
  /\ \A x \in DOMAIN pendingConfirmations :
       LET rec == pendingConfirmations[x] IN
       rec.action = "create_swap" =>
         /\ Canonical(rec.params.from_currency)
         /\ Canonical(rec.params.to_currency)
  /\ (last.op = "handleCreateSwap"
        /\ last.result.call \in {"estimateSwap", "createSwap"}) =>
       /\ CurrencySymbolValid(last.id[1])
       /\ CurrencySymbolValid(last.id[2])
       /\ Canonical(last.result.args.from_currency)
       /\ Canonical(last.result.args.to_currency)
----------------------------------------------------------------------------
(* C35 *)

Previews == {"estimateSwap", "getOffer"}

\* C35: for every handler suspended at its preview call (client.estimateSwap
\* of handleCreateSwap, client.getOffer of handleStartTrade): if the call
\* is rejected, the handler returns an error-flagged response, makes no
\* further call, and no record of this request is in the store, so that
\* the store holds no record whose id no response has carried; if the call
\* resolves, the response is 'confirmation_required' and carries the id of
\* the request's record.
C35_NoOrphanTokens ==
  \A c \in BagToSet(inflight) :
    c.at \in Previews =>
      /\ \A settled \in Rejections :
           LET o == Resume(c, settled, 1) IN
           /\ o.isError
           /\ o.out = "UpstreamFailure"
           /\ o.call = "none"
           /\ o.cont = NoContinuation
           /\ o.store = pendingConfirmations
           /\ Truthy(c.id) => c.id \notin DOMAIN o.store
      /\ LET o == Resume(c, Resolved, 1) IN
         /\ o.out = "confirmation_required"
         /\ Truthy(o.id)
         /\ c.at = "getOffer" => o.id \in DOMAIN o.store
----------------------------------------------------------------------------
(* C36 *)

PreviewOf(action) ==
  IF action = "create_swap" THEN "estimateSwap" ELSE "getOffer"

C36Holds(action, executor, reaches, np, confirm, cid, o) ==
  (reaches /\ NeedsConfirmation(confirm, cid)) =>
    /\ o.call = PreviewOf(action)
    /\ o.args = np
    /\ o.redeem = "none"
    /\ o.cont.at = PreviewOf(action)
    /\ o.cont.cid = Undefined

\* C36: a request on path 3 (it passes the credential check and the
\* validation, confirmations are required, confirm is not true and there is
\* no confirmation_id) calls the preview of its handler, client.estimateSwap
\* or client.getOffer, and suspends there; when the preview settles,
\* resolved or rejected, the handler returns without another Trading
\* Service call: neither client.createSwap nor client.startTrade is called.
C36_PreviewIsReadOnly ==
  /\ EveryRequest(C36Holds)
  /\ \A c \in BagToSet(inflight), settled \in Settlements,
        r \in RandomSuffixes :
       c.at \in Previews =>
         LET o == Resume(c, settled, r) IN
         /\ o.call = "none"
         /\ o.cont = NoContinuation
         /\ o.out \in {"confirmation_required", "UpstreamFailure"}

\* a create_swap request and a start_trade request on path 3 are both
\* suspended at their preview calls
C36_Witness ==
  /\ \E c \in BagToSet(inflight) : c.at = "estimateSwap"
  /\ \E c \in BagToSet(inflight) : c.at = "getOffer"
  /\ config.requireConfirmation
----------------------------------------------------------------------------
(* C37 *)

\* the timers the module's handle accounts for
HeldTimers == IF cleanupInterval = 0 THEN {} ELSE {cleanupInterval}

\* C37: at every moment at most one interval timer is active, and it is the
\* one the module holds in cleanupInterval; a sweep can run only while
\* startConfirmationCleanup has set a timer that has not been stopped.  A
\* step that changes the timers is a start that leaves exactly one active
\* or a stop that leaves none, and neither touches the store; no record is
\* swept while no timer is active.
C37_AtMostOneSweepTimer ==
  /\ [](/\ Cardinality(timers) <= 1
        /\ timers = HeldTimers
        /\ (ENABLED Sweep) => cleanupInterval # 0)
  /\ [][/\ (timers' # timers \/ cleanupInterval' # cleanupInterval) =>
            /\ \/ Cardinality(timers') = 1 /\ cleanupInterval' \in timers'
               \/ timers' = {} /\ cleanupInterval' = 0
            /\ pendingConfirmations' = pendingConfirmations
        /\ (\E x \in DOMAIN ledger : "swept" \in ledger'[x] \ ledger[x]) =>
            (timers # {} /\ cleanupInterval # 0)]_vars

\* the one active timer has fired and swept a record
C37_Witness ==
  /\ Cardinality(timers) = 1
  /\ cleanupInterval \in timers
  /\ last = NoEvent
  /\ \E x \in DOMAIN ledger :
       "swept" \in Tags(x) /\ x \notin DOMAIN pendingConfirmations
----------------------------------------------------------------------------
(* C38 *)

\* C38: a call of getPendingConfirmation(id) returns the record stored
\* under id, undefined when there is none, and changes nothing: the store
\* holds the records it held, an expired record included, and the clock,
\* the timers and the suspended handlers are as they were.
C38_PeekDoesNotMutate ==
  [][last'.op = "getPendingConfirmation" =>
       /\ pendingConfirmations' = pendingConfirmations
       /\ last'.result =
            (IF last'.id \in DOMAIN pendingConfirmations
             THEN pendingConfirmations[last'.id] ELSE Undefined)
       /\ UNCHANGED <<now, config, cleanupInterval, timers, inflight, ledger,
                      issued>>]_vars

\* getPendingConfirmation has just returned a record that had expired, and
\* the record is still in the store
C38_Witness ==
  /\ last.op = "getPendingConfirmation"
  /\ last.id \in DOMAIN pendingConfirmations
  /\ IsExpired(pendingConfirmations[last.id], now)
  /\ last.result = pendingConfirmations[last.id]
====
